---------------------------- MODULE Spec2Model ----------------------------
(***************************************************************************)
(* amdgpu-sentinel: the rolling sample buffer (circular_buffer.rs), its    *)
(* averages (stats.rs) and the regime state machine with its tick loop     *)
(* (main.rs).                                                              *)
(*                                                                         *)
(* Conventions                                                             *)
(*  - Rust indices are 0-based; a Vec is a sequence and data[i] of the     *)
(*    code is data[i + 1] here.                                            *)
(*  - An operation that can panic returns an outcome record with a field   *)
(*    ok; ok = FALSE is the panic (the thread unwinds, the process of      *)
(*    main.rs ends).                                                       *)
(*  - usize subtraction below zero panics in a build with overflow checks  *)
(*    (the debug profile) and wraps in a build without (the release        *)
(*    profile); overflow_checks is the build's choice.                     *)
(*  - A float quotient sum / weight is kept as the exact pair              *)
(*    <<sum, weight>>; a comparison of the quotient with a threshold is    *)
(*    made by cross-multiplication.  For the integer samples drawn here    *)
(*    sums and weights are exact in f32 and f64 and the thresholds are     *)
(*    representable, so the rounded quotient compares as the exact one.    *)
(***************************************************************************)
EXTENDS Integers, Sequences, FiniteSets, TLC

VARIABLES
    overflow_checks, \* build profile: TRUE = arithmetic overflow panics
    buf,             \* SpecBuf/SpecStats: the CircularBuffer under test
    hist,            \* ghost: every value passed to add(), in call order
    bstatus,         \* "ok" | "panic": whether a buffer operation has panicked
    iters,           \* SpecBuf: the two CircularIterator structs (or NoIter)
    yielded,         \* ghost: what each iterator returned from next / next_back
    avg_out,         \* SpecStats: outcome of the last average() call
    wavg_out,        \* SpecStats: outcome of the last index_weighted_average()
    state,           \* GpuStateMachine::state
    usage_buffer,    \* GpuStateMachine::usage_buffer
    temperature_buffer, \* GpuStateMachine::temperature_buffer
    gathers,         \* main: the tick counter, kept modulo gathers_per_reapply
    term,            \* main: the flag SIGTERM / SIGINT set
    pc,              \* main: where the process is
    device,          \* the sysfs control points of the card
    prev_state,      \* ghost: the regime step() started from, "none" unless
                     \* step() was the last thing the state machine did
    latest,          \* ghost: the samples the last update() ingested
    applied,         \* ghost: the apply() call made since the last update():
                     \* its profile and its caller (NoApply if none was made)
    fresh,           \* ghost: how many of the stored temperature samples
                     \* were ingested since step() last took CoolOff to Idle
                     \* (all of them if it never did)
    table,           \* SpecTable: the PolarisGpuTable under test
    call,            \* SpecTable: the last set_state() call, its result and
                     \* (ghost) the table it was made on
    text,            \* SpecParse: the lines handed to try_parse
    parsed,          \* SpecParse: the outcome of try_parse (NotParsed before)
    live,            \* SpecDerived: the table read from the device
    derived,         \* SpecDerived: the last operation on a derived table,
                     \* its inputs and its outcome
    fan,             \* SpecFan: the FanCurve, the points it was made from
                     \* and its last evaluate() call
    pstate,          \* SpecPstate: the last modify_pstate() call, what the
                     \* device answered and its outcome
    pct              \* SpecPercent: the last ClampedPercentage made and the
                     \* pwm value written for it or read back into it

bufVars == <<buf, hist, bstatus, iters, yielded, avg_out, wavg_out>>

mainVars == <<state, usage_buffer, temperature_buffer, gathers, term, pc,
              device, prev_state, latest, applied, fresh>>

tableVars == <<table, call, text, parsed, live, derived, fan, pstate,
               pct>>

vars == <<overflow_checks, bufVars, mainVars, tableVars>>

----------------------------------------------------------------------------
(* Bounds of the model. *)

MaxSize == 3        \* largest capacity passed to CircularBuffer::new
MaxAdds == 4        \* add() calls per run of the buffer specification

BufSamples == {1, 2, 3}

----------------------------------------------------------------------------
(* Helpers on sequences. *)

Min(a, b) == IF a <= b THEN a ELSE b

Reverse(s) == [i \in 1..Len(s) |-> s[Len(s) + 1 - i]]

\* The last n elements of s, oldest first.
LastN(s, n) == SubSeq(s, Len(s) - n + 1, Len(s))

IsPrefix(p, s) == Len(p) <= Len(s) /\ SubSeq(s, 1, Len(p)) = p

----------------------------------------------------------------------------
(* circular_buffer.rs *)

\* usize::MAX, the result of 0usize - 1 in a build without overflow checks.
\* The model checker's integers are 32 bits wide, so the largest of them
\* stands for the target's 2^64 - 1; the value is stored in rev_cur and never
\* used as an index (left is 0 whenever it arises).
UsizeMax == 2147483647

\* CircularBuffer::new
New(size) == [data |-> <<>>, size |-> size, last |-> 0]

\* add() indexes data[self.last] once the vector is full: out of bounds when
\* the vector is empty (capacity 0).
AddPanics(b) == Len(b.data) >= b.size /\ b.last >= Len(b.data)

\* CircularBuffer::add, when it does not panic
Add(b, v) ==
    IF Len(b.data) < b.size
    THEN [b EXCEPT !.data = Append(@, v)]
    ELSE [b EXCEPT !.data[b.last + 1] = v,
                   !.last = (b.last + 1) % b.size]

\* CircularBuffer::len
BufLen(b) == Len(b.data)

\* iter() computes len - 1 when last = 0: below zero for an empty vector.
IterPanics(b, checks) == b.last = 0 /\ Len(b.data) = 0 /\ checks

\* Mutant of Iter: the traversal starts at slot 0, not at the oldest sample.
MutIterFromSlotZero(b) ==
    [cur     |-> 0,
     rev_cur |-> IF Len(b.data) = 0 THEN UsizeMax ELSE Len(b.data) - 1,
     left    |-> Len(b.data)]

\* CircularBuffer::iter, when it does not panic
Iter(b) ==
    [cur     |-> b.last,
     rev_cur |-> IF b.last = 0
                 THEN (IF Len(b.data) = 0 THEN UsizeMax ELSE Len(b.data) - 1)
                 ELSE b.last - 1,
     left    |-> Len(b.data)]

\* Iterator::next for CircularIterator: the item returned (left > 0)
NextItem(it, data) == data[it.cur + 1]

\* Iterator::next for CircularIterator: the iterator afterwards (left > 0)
NextIter(it, data) ==
    [it EXCEPT !.cur = IF it.cur = Len(data) - 1 THEN 0 ELSE it.cur + 1,
               !.left = it.left - 1]

\* DoubleEndedIterator::next_back: the item returned (left > 0)
NextBackItem(it, data) == data[it.rev_cur + 1]

\* DoubleEndedIterator::next_back: the iterator afterwards (left > 0)
NextBackIter(it, data) ==
    [it EXCEPT !.rev_cur = IF it.rev_cur = 0 THEN Len(data) - 1
                           ELSE it.rev_cur - 1,
               !.left = it.left - 1]

\* Draining an iterator with next() until it returns None.
RECURSIVE Drain(_, _)
Drain(it, data) ==
    IF it.left > 0
    THEN <<NextItem(it, data)>> \o Drain(NextIter(it, data), data)
    ELSE <<>>

\* Draining iter().rev(): next_back() until it returns None.
RECURSIVE DrainBack(_, _)
DrainBack(it, data) ==
    IF it.left > 0
    THEN <<NextBackItem(it, data)>> \o DrainBack(NextBackIter(it, data), data)
    ELSE <<>>

Panicked == [ok |-> FALSE, items |-> <<>>]

\* buffer.iter() collected: the panic of iter(), or the items in order.
Forward(b, checks) ==
    IF IterPanics(b, checks) THEN Panicked
    ELSE [ok |-> TRUE, items |-> Drain(Iter(b), b.data)]

\* buffer.iter().rev() collected.
Backward(b, checks) ==
    IF IterPanics(b, checks) THEN Panicked
    ELSE [ok |-> TRUE, items |-> DrainBack(Iter(b), b.data)]

\* CircularBuffer::last: data[self.last], out of bounds on an empty vector.
Last(b) ==
    IF b.last >= Len(b.data) THEN [ok |-> FALSE, value |-> 0]
    ELSE [ok |-> TRUE, value |-> b.data[b.last + 1]]

----------------------------------------------------------------------------
(* The buffer specification: one buffer, add() calls, and two iterators     *)
(* borrowed from it whose next()/next_back() calls interleave.  The borrow  *)
(* checker admits add() (a &mut borrow) only while no iterator is alive.    *)

NoIter == [cur |-> 0, rev_cur |-> 0, left |-> 0, live |-> FALSE]

NoYield == [front |-> <<>>, back |-> <<>>]

LiveIter(it) == [cur |-> it.cur, rev_cur |-> it.rev_cur, left |-> it.left,
                 live |-> TRUE]

NoOut == [ok |-> TRUE, set |-> FALSE, sum |-> 0, weight |-> 0]

NoApply == [profile |-> "none", by |-> "none", writes |-> {}]

\* No table has been parsed and no set_state() call made: the value of
\* table and call outside the table specification.
NoTable ==
    [voltage_range |-> <<0, 0>>, sclk_range |-> <<0, 0>>,
     mclk_range |-> <<0, 0>>, memory_states |-> <<>>, core_states |-> <<>>]

NoCall ==
    [made |-> FALSE, part |-> "Core", index |-> 0,
     state |-> [clock |-> 0, voltage |-> 0], result |-> "Ok",
     before |-> NoTable]

\* try_parse has not been called.
NotParsed == [kind |-> "NotParsed"]

\* No FanCurve has been constructed.
NoFan == [made |-> FALSE]

\* No operation on a derived table has been made.
NoDerived == [op |-> "none"]

\* modify_pstate() has not been called.
NoPstate == [op |-> "none"]

\* No ClampedPercentage has been made.
NoPercent == [op |-> "none"]

TableAtRest ==
    /\ table = NoTable /\ call = NoCall /\ text = <<>> /\ parsed = NotParsed
    /\ live = NoTable /\ derived = NoDerived /\ fan = NoFan
    /\ pstate = NoPstate /\ pct = NoPercent

\* The controller of main.rs is not running in the buffer and statistics
\* specifications.
MainAtRest ==
    /\ state = "Idle"
    /\ usage_buffer = New(0)
    /\ temperature_buffer = New(0)
    /\ gathers = 0
    /\ term = FALSE
    /\ pc = "off"
    /\ device = <<>>
    /\ prev_state = "none"
    /\ latest = <<>>
    /\ fresh = 0
    /\ applied = NoApply

InitBuf ==
    /\ MainAtRest
    /\ TableAtRest
    /\ overflow_checks \in BOOLEAN
    /\ \E size \in 0..MaxSize : buf = New(size)
    /\ hist = <<>>
    /\ bstatus = "ok"
    /\ iters = [i \in 1..2 |-> NoIter]
    /\ yielded = [i \in 1..2 |-> NoYield]
    /\ avg_out = NoOut
    /\ wavg_out = NoOut

\* buffer.add(v)
BufAdd ==
    /\ bstatus = "ok"
    /\ Len(hist) < MaxAdds
    /\ \A i \in 1..2 : ~iters[i].live
    /\ \E v \in BufSamples :
         /\ hist' = Append(hist, v)
         /\ IF AddPanics(buf)
            THEN bstatus' = "panic" /\ buf' = buf
            ELSE bstatus' = "ok" /\ buf' = Add(buf, v)
    /\ UNCHANGED <<overflow_checks, tableVars, iters, yielded, avg_out,
                   wavg_out, mainVars>>

\* let it_i = buffer.iter()
BufIter(i) ==
    /\ bstatus = "ok"
    /\ ~iters[i].live
    /\ IF IterPanics(buf, overflow_checks)
       THEN bstatus' = "panic" /\ UNCHANGED iters
       ELSE bstatus' = "ok" /\ iters' = [iters EXCEPT ![i] = LiveIter(Iter(buf))]
    /\ yielded' = [yielded EXCEPT ![i] = NoYield]
    /\ UNCHANGED <<overflow_checks, tableVars, buf, hist, avg_out, wavg_out,
                   mainVars>>

\* it_i.next() returning Some
BufNext(i) ==
    /\ bstatus = "ok"
    /\ iters[i].live
    /\ iters[i].left > 0
    /\ yielded' = [yielded EXCEPT
                     ![i].front = Append(@, NextItem(iters[i], buf.data))]
    /\ iters' = [iters EXCEPT ![i] = LiveIter(NextIter(iters[i], buf.data))]
    /\ UNCHANGED <<overflow_checks, tableVars, buf, hist, bstatus, avg_out,
                   wavg_out, mainVars>>

\* it_i.next_back() returning Some
BufNextBack(i) ==
    /\ bstatus = "ok"
    /\ iters[i].live
    /\ iters[i].left > 0
    /\ yielded' = [yielded EXCEPT
                     ![i].back = Append(@, NextBackItem(iters[i], buf.data))]
    /\ iters' = [iters EXCEPT ![i] = LiveIter(NextBackIter(iters[i], buf.data))]
    /\ UNCHANGED <<overflow_checks, tableVars, buf, hist, bstatus, avg_out,
                   wavg_out, mainVars>>

\* it_i goes out of scope
BufDrop(i) ==
    /\ bstatus = "ok"
    /\ iters[i].live
    /\ iters' = [iters EXCEPT ![i] = NoIter]
    /\ yielded' = [yielded EXCEPT ![i] = NoYield]
    /\ UNCHANGED <<overflow_checks, tableVars, buf, hist, bstatus, avg_out,
                   wavg_out, mainVars>>

NextBuf ==
    \/ BufAdd
    \/ \E i \in 1..2 : BufIter(i)
    \/ \E i \in 1..2 : BufNext(i)
    \/ \E i \in 1..2 : BufNextBack(i)
    \/ \E i \in 1..2 : BufDrop(i)

SpecBuf == InitBuf /\ [][NextBuf]_vars


----------------------------------------------------------------------------
(* stats.rs *)

Max(a, b) == IF a >= b THEN a ELSE b

\* Mutant of AverageFold: the count is the last index, not the last index + 1.
RECURSIVE MutAverageFoldByIndex(_, _)
MutAverageFoldByIndex(s, n) ==
    IF n = 0 THEN <<0, 0>>
    ELSE LET acc == MutAverageFoldByIndex(s, n - 1)
         IN  <<acc[1] + s[n], Max(n - 1, acc[2])>>

\* average(): the fold over enumerate() after the first n items,
\* <<sum, total_weight>>; the item with idx = n - 1 is s[n].
RECURSIVE AverageFold(_, _)
AverageFold(s, n) ==
    IF n = 0 THEN <<0, 0>>
    ELSE LET acc == AverageFold(s, n - 1)
         IN  <<acc[1] + s[n], Max((n - 1) + 1, acc[2])>>

\* Mutant of WeightedFold: the weight is the index, not the index + 1.
RECURSIVE MutWeightedFoldByIndex(_, _)
MutWeightedFoldByIndex(s, n) ==
    IF n = 0 THEN <<0, 0>>
    ELSE LET acc == MutWeightedFoldByIndex(s, n - 1)
             weight == n - 1
         IN  <<acc[1] + s[n] * weight, acc[2] + weight>>

\* index_weighted_average(): the fold over enumerate() after the first n
\* items; weight = idx + 1.
RECURSIVE WeightedFold(_, _)
WeightedFold(s, n) ==
    IF n = 0 THEN <<0, 0>>
    ELSE LET acc == WeightedFold(s, n - 1)
             weight == (n - 1) + 1
         IN  <<acc[1] + s[n] * weight, acc[2] + weight>>

\* average(items): sum / total_weight as the pair <<sum, total_weight>>;
\* total_weight = 0 is the float quotient 0/0 (NaN), not a panic.
Average(s) == AverageFold(s, Len(s))

\* index_weighted_average(items)
IndexWeightedAverage(s) == WeightedFold(s, Len(s))

Out(fwd, q) ==
    [ok |-> fwd.ok, set |-> TRUE,
     sum |-> IF fwd.ok THEN q[1] ELSE 0,
     weight |-> IF fwd.ok THEN q[2] ELSE 0]

\* average(&buffer): IntoIterator for &CircularBuffer is iter()
BufferAverage(b, checks) ==
    LET fwd == Forward(b, checks) IN Out(fwd, Average(fwd.items))

\* index_weighted_average(buffer.iter())
BufferWeightedAverage(b, checks) ==
    LET fwd == Forward(b, checks) IN Out(fwd, IndexWeightedAverage(fwd.items))

----------------------------------------------------------------------------
(* The statistics specification: a buffer filled by add() calls, and the    *)
(* two averages taken over it.                                              *)

MaxStatSize == 5    \* largest capacity of the averaged buffer
MaxStatAdds == 5    \* add() calls per run of the statistics specification

StatSamples == {1, 2, 3, 4, 5}

InitStats ==
    /\ MainAtRest
    /\ TableAtRest
    /\ overflow_checks \in BOOLEAN
    /\ \E size \in 1..MaxStatSize : buf = New(size)
    /\ hist = <<>>
    /\ bstatus = "ok"
    /\ iters = [i \in 1..2 |-> NoIter]
    /\ yielded = [i \in 1..2 |-> NoYield]
    /\ avg_out = NoOut
    /\ wavg_out = NoOut

\* buffer.add(v); earlier results no longer describe the buffer
StatAdd ==
    /\ bstatus = "ok"
    /\ Len(hist) < MaxStatAdds
    /\ \E v \in StatSamples :
         /\ hist' = Append(hist, v)
         /\ IF AddPanics(buf)
            THEN bstatus' = "panic" /\ buf' = buf
            ELSE bstatus' = "ok" /\ buf' = Add(buf, v)
    /\ avg_out' = NoOut
    /\ wavg_out' = NoOut
    /\ UNCHANGED <<overflow_checks, tableVars, iters, yielded, mainVars>>

\* average(&buffer)
StatAverage ==
    /\ bstatus = "ok"
    /\ ~avg_out.set
    /\ avg_out' = BufferAverage(buf, overflow_checks)
    /\ bstatus' = IF avg_out'.ok THEN "ok" ELSE "panic"
    /\ UNCHANGED <<overflow_checks, tableVars, buf, hist, iters, yielded,
                   wavg_out, mainVars>>

\* index_weighted_average(buffer.iter())
StatWeighted ==
    /\ bstatus = "ok"
    /\ ~wavg_out.set
    /\ wavg_out' = BufferWeightedAverage(buf, overflow_checks)
    /\ bstatus' = IF wavg_out'.ok THEN "ok" ELSE "panic"
    /\ UNCHANGED <<overflow_checks, tableVars, buf, hist, iters, yielded,
                   avg_out, mainVars>>

NextStats ==
    \/ StatAdd
    \/ StatAverage
    \/ StatWeighted

SpecStats == InitStats /\ [][NextStats]_vars

----------------------------------------------------------------------------
(* main.rs: the card's control points (PolarisGpu) *)

WattageDivisor == 1000000

\* PolarisGpu::to_real_wattage
ToRealWattage(watts) == watts * WattageDivisor

\* The power1_cap_min / power1_cap_max pairs a card may report, in watts.
PowerRanges == {<<1, 150>>, <<1, 100>>, <<50, 150>>}

\* The card before the controller touches it.
DeviceInit(range) ==
    [level         |-> "auto",
     fan_mode      |-> "auto",
     pwm           |-> 0,
     pcie          |-> "gen3",
     pstate_core   |-> 0,
     pstate_memory |-> 0,
     power_cap     |-> ToRealWattage(range[2]),
     cap_min       |-> ToRealWattage(range[1]),
     cap_max       |-> ToRealWattage(range[2]),
     od            |-> <<>>]

\* Mutant of PwmOf: the duty cycle is rounded to the nearest pwm step.
MutPwmOfRounded(percent) == (percent * 255 + 50) \div 100

\* PolarisGpu::set_fan_speed: the u8 written to pwm1
PwmOf(percent) == (percent * 255) \div 100

\* PolarisGpu::set_power_limit: whether the wattage is in power_limit_range()
PowerLimitInRange(dev, watts) ==
    dev.cap_min <= ToRealWattage(watts) /\ ToRealWattage(watts) <= dev.cap_max

IdlePowerLimit == 40
PerformancePowerLimit == 135
IdleFanSpeed == 0
PerformanceFanSpeed == 45
CoolOffFanSpeed == 35
PerformancePstateCore == 7
PerformancePstateMemory == 2

\* Mutant of ProfileWrites: the CoolOff arm selects the lowest pstates as the
\* Idle arm does.
MutProfileWritesCoolOffSelectsPstates(st) ==
    CASE st = "Idle" ->
           [level |-> "manual", fan_mode |-> "manual",
            pwm |-> PwmOf(IdleFanSpeed), pcie |-> "gen1",
            pstate_core |-> 0, pstate_memory |-> 0]
      [] st = "Performance" ->
           [level |-> "manual", fan_mode |-> "manual",
            pwm |-> PwmOf(PerformanceFanSpeed), pcie |-> "gen3",
            pstate_core |-> PerformancePstateCore,
            pstate_memory |-> PerformancePstateMemory]
      [] st = "CoolOff" ->
           [fan_mode |-> "manual", pwm |-> PwmOf(CoolOffFanSpeed),
            pcie |-> "gen1", pstate_core |-> 0, pstate_memory |-> 0]

\* GpuStateMachine::apply: the control points each arm writes before
\* set_power_limit, with the values written
ProfileWrites(st) ==
    CASE st = "Idle" ->
           [level |-> "manual", fan_mode |-> "manual",
            pwm |-> PwmOf(IdleFanSpeed), pcie |-> "gen1",
            pstate_core |-> 0, pstate_memory |-> 0]
      [] st = "Performance" ->
           [level |-> "manual", fan_mode |-> "manual",
            pwm |-> PwmOf(PerformanceFanSpeed), pcie |-> "gen3",
            pstate_core |-> PerformancePstateCore,
            pstate_memory |-> PerformancePstateMemory]
      [] st = "CoolOff" ->
           [fan_mode |-> "manual", pwm |-> PwmOf(CoolOffFanSpeed),
            pcie |-> "gen1"]

\* GpuStateMachine::apply, the writes before set_power_limit
ApplyWrites(dev, st) ==
    [c \in DOMAIN dev |->
        IF c \in DOMAIN ProfileWrites(st) THEN ProfileWrites(st)[c]
        ELSE dev[c]]

\* Mutant of ProfilePowerLimit: the Performance arm passes the Idle wattage.
MutProfilePowerLimitIdleWattage(st) ==
    CASE st = "Idle" -> IdlePowerLimit
      [] st = "Performance" -> IdlePowerLimit
      [] st = "CoolOff" -> 0

\* The wattage apply() passes to set_power_limit; 0 when it makes no call.
ProfilePowerLimit(st) ==
    CASE st = "Idle" -> IdlePowerLimit
      [] st = "Performance" -> PerformancePowerLimit
      [] st = "CoolOff" -> 0

\* Mutant of ApplyPanics: a wattage outside the range is skipped silently.
MutApplyPanicsNever(dev, st) == FALSE

\* GpuStateMachine::apply panics in set_power_limit outside the range
ApplyPanics(dev, st) ==
    st # "CoolOff" /\ ~PowerLimitInRange(dev, ProfilePowerLimit(st))

\* GpuStateMachine::apply: the control points written (set_power_limit
\* writes power1_cap unless it panics)
ApplyWritten(dev, st) ==
    DOMAIN ProfileWrites(st)
      \cup (IF st = "CoolOff" \/ ApplyPanics(dev, st) THEN {}
            ELSE {"power_cap"})

\* GpuStateMachine::apply: the card afterwards (the writes made before a
\* panic stay made)
Apply(dev, st) ==
    IF st = "CoolOff" \/ ApplyPanics(dev, st)
    THEN ApplyWrites(dev, st)
    ELSE [ApplyWrites(dev, st) EXCEPT
            !.power_cap = ToRealWattage(ProfilePowerLimit(st))]

----------------------------------------------------------------------------
(* main.rs: GpuStateMachine *)

PerformanceThreshold == 75
IdleUsageThreshold == 50
HeatThreshold == 55
CoolThreshold == 43
SustainUsageFloor == 5

\* Comparisons of a float quotient q = <<sum, weight>> with a threshold; with
\* weight 0 the quotient is NaN and every comparison is false.
QuotGE(q, t) == q[2] > 0 /\ q[1] >= t * q[2]

QuotGT(q, t) == q[2] > 0 /\ q[1] > t * q[2]

QuotLT(q, t) == q[2] > 0 /\ q[1] < t * q[2]

QuotLE(q, t) == q[2] > 0 /\ q[1] <= t * q[2]

\* Mutant of Override: step() has no override, each regime's arm decides.
MutOverrideNever(wu) == FALSE

\* Mutant of Override: the threshold itself does not force Performance.
MutOverrideStrict(wu) == QuotGT(wu, PerformanceThreshold)

\* step(): weighted_avg_usage >= performance_treshold
Override(wu) == QuotGE(wu, PerformanceThreshold)

\* step(): the arm of GpuCustomState::Idle
IdleRule(wu, current_temperature) ==
    IF QuotGT(wu, IdleUsageThreshold) THEN "Performance"
    ELSE IF current_temperature >= HeatThreshold THEN "CoolOff"
    ELSE "Idle"

\* Mutant of CoolOffRule: the comparison with the cool threshold is reversed.
MutCoolOffRuleReversed(wt) ==
    IF QuotGE(wt, CoolThreshold) THEN "Idle" ELSE "CoolOff"

\* Mutant of CoolOffRule: the cool threshold itself does not end CoolOff.
MutCoolOffRuleStrict(wt) ==
    IF QuotLT(wt, CoolThreshold) THEN "Idle" ELSE "CoolOff"

\* step(): the arm of GpuCustomState::CoolOff
CoolOffRule(wt) ==
    IF QuotLE(wt, CoolThreshold) THEN "Idle" ELSE "CoolOff"

\* Mutant of PerformanceRule: Performance falls back to CoolOff.
MutPerformanceRuleToCoolOff(usages, wu) ==
    IF (\E i \in 1..Len(usages) : usages[i] >= PerformanceThreshold)
       /\ QuotGE(wu, SustainUsageFloor)
    THEN "Performance"
    ELSE "CoolOff"

\* Mutant of PerformanceRule: the floor on weighted usage is not tested.
MutPerformanceRuleNoFloor(usages, wu) ==
    IF \E i \in 1..Len(usages) : usages[i] >= PerformanceThreshold
    THEN "Performance"
    ELSE "Idle"

\* step(): the arm of GpuCustomState::Performance
PerformanceRule(usages, wu) ==
    IF (\E i \in 1..Len(usages) : usages[i] >= PerformanceThreshold)
       /\ QuotGE(wu, SustainUsageFloor)
    THEN "Performance"
    ELSE "Idle"

\* step(): new_state
NewState(st, usages, wu, wt, current_temperature) ==
    IF Override(wu) THEN "Performance"
    ELSE CASE st = "Idle" -> IdleRule(wu, current_temperature)
           [] st = "CoolOff" -> CoolOffRule(wt)
           [] st = "Performance" -> PerformanceRule(usages, wu)

\* Mutant of StepApplies: step() changes the regime without applying it.
MutStepAppliesNever(st, new_state) == FALSE

\* Mutant of StepApplies: step() applies the target profile on every call.
MutStepAppliesAlways(st, new_state) == TRUE

\* step(): if new_state != self.state { .. self.apply(gpu); }
StepApplies(st, new_state) == new_state # st

\* step() reads last() of the temperature buffer and iterates both buffers:
\* it panics if last() or iter() does.
StepReadPanics(ub, tb, checks) ==
    \/ ~Last(tb).ok
    \/ IterPanics(ub, checks)
    \/ IterPanics(tb, checks)

\* step(): new_state from the buffers
StepTarget(st, ub, tb, checks) ==
    NewState(st,
             Forward(ub, checks).items,
             IndexWeightedAverage(Forward(ub, checks).items),
             IndexWeightedAverage(Forward(tb, checks).items),
             Last(tb).value)

----------------------------------------------------------------------------
(* main.rs: main *)

FloorCap == 6       \* usage buffers on which the sustain floor decides
UsageCap == 2       \* capacity of the usage buffer (30 * buffer_scale in main)
TempCap == 2        \* capacity of the temperature buffer (10 * buffer_scale)

GathersPerUpdate == 2
GathersPerReapply == 10

\* gpu_busy_percent readings (ClampedPercentage, 0..100)
UsageSamples == {0, 60, 75}

\* temp1_input readings, in degrees
TempSamples == {40, 43, 55}

BufAtRest ==
    /\ buf = New(0)
    /\ hist = <<>>
    /\ bstatus = "ok"
    /\ iters = [i \in 1..2 |-> NoIter]
    /\ yielded = [i \in 1..2 |-> NoYield]
    /\ avg_out = NoOut
    /\ wavg_out = NoOut

\* The process at the first statement of main that touches the card; the
\* state machine is the one GpuStateMachine::new builds.
Init ==
    /\ BufAtRest
    /\ TableAtRest
    /\ overflow_checks \in BOOLEAN
    /\ state = "Idle"
    /\ usage_buffer = New(UsageCap)
    /\ temperature_buffer = New(TempCap)
    /\ gathers = 0
    /\ term = FALSE
    /\ pc = "overclock_core"
    /\ \E range \in PowerRanges : device = DeviceInit(range)
    /\ prev_state = "none"
    /\ latest = <<>>
    /\ fresh = TempCap
    /\ applied = NoApply

Running == pc \notin {"off", "done", "panic"}

\* SIGTERM or SIGINT: signal_hook sets the flag
Signal ==
    /\ Running
    /\ ~term
    /\ term' = TRUE
    /\ UNCHANGED <<overflow_checks, tableVars, bufVars, state, usage_buffer,
                   temperature_buffer, gathers, pc, device, prev_state, latest,
                   fresh,
                   applied>>

\* Mutant of OverclockCore: the error of the rejected write is dropped and
\* main goes on to the memory state.
MutOverclockCoreIgnoresError ==
    /\ pc = "overclock_core"
    /\ \E accepted \in BOOLEAN :
         IF accepted
         THEN /\ device' = [device EXCEPT !.od = Append(@, "s 7 1275 1000")]
              /\ pc' = "overclock_memory"
         ELSE /\ device' = device
              /\ pc' = "overclock_memory"
    /\ UNCHANGED <<overflow_checks, tableVars, bufVars, state, usage_buffer,
                   temperature_buffer, gathers, term, prev_state, latest, fresh,
                   applied>>

\* rx570.modify_pstate_core(7, 1275, 1000).expect(..)
OverclockCore ==
    /\ pc = "overclock_core"
    /\ \E accepted \in BOOLEAN :
         IF accepted
         THEN /\ device' = [device EXCEPT !.od = Append(@, "s 7 1275 1000")]
              /\ pc' = "overclock_memory"
         ELSE /\ device' = device
              /\ pc' = "panic"
    /\ UNCHANGED <<overflow_checks, tableVars, bufVars, state, usage_buffer,
                   temperature_buffer, gathers, term, prev_state, latest, fresh,
                   applied>>

\* Mutant of OverclockMemory: the error of the rejected write is dropped and
\* main goes on to commit.
MutOverclockMemoryIgnoresError ==
    /\ pc = "overclock_memory"
    /\ \E accepted \in BOOLEAN :
         IF accepted
         THEN /\ device' = [device EXCEPT !.od = Append(@, "m 2 1900 900")]
              /\ pc' = "commit"
         ELSE /\ device' = device
              /\ pc' = "commit"
    /\ UNCHANGED <<overflow_checks, tableVars, bufVars, state, usage_buffer,
                   temperature_buffer, gathers, term, prev_state, latest, fresh,
                   applied>>

\* rx570.modify_pstate_memory(2, 1900, 900).expect(..)
OverclockMemory ==
    /\ pc = "overclock_memory"
    /\ \E accepted \in BOOLEAN :
         IF accepted
         THEN /\ device' = [device EXCEPT !.od = Append(@, "m 2 1900 900")]
              /\ pc' = "commit"
         ELSE /\ device' = device
              /\ pc' = "panic"
    /\ UNCHANGED <<overflow_checks, tableVars, bufVars, state, usage_buffer,
                   temperature_buffer, gathers, term, prev_state, latest, fresh,
                   applied>>

\* rx570.commit_pstates()
CommitPstates ==
    /\ pc = "commit"
    /\ device' = [device EXCEPT !.od = Append(@, "c")]
    /\ pc' = "first_apply"
    /\ UNCHANGED <<overflow_checks, tableVars, bufVars, state, usage_buffer,
                   temperature_buffer, gathers, term, prev_state, latest, fresh,
                   applied>>

\* GpuStateMachine::new(gathers_per_update); state_machine.apply(&rx570)
FirstApply ==
    /\ pc = "first_apply"
    /\ device' = Apply(device, state)
    /\ pc' = IF ApplyPanics(device, state) THEN "panic" ELSE "update"
    /\ applied' = [profile |-> state, by |-> "main",
                   writes |-> ApplyWritten(device, state)]
    /\ UNCHANGED <<overflow_checks, tableVars, bufVars, state, usage_buffer,
                   temperature_buffer, gathers, term, prev_state, latest,
                   fresh>>

\* Where the tick goes after update(): step() on every gathers_per_update-th
\* tick, else the re-apply test.
AfterStep ==
    IF gathers % GathersPerReapply = 0 THEN "reapply" ELSE "sleep"

AfterUpdate ==
    IF gathers % GathersPerUpdate = 0 THEN "step" ELSE AfterStep

\* Mutant of UpdateFrom: the temperature is read but not stored.
MutUpdateFromSkipsTemperature(usages, temperatures) ==
    /\ pc = "update"
    /\ ~term
    /\ \E u \in usages, t \in temperatures :
         /\ usage_buffer' = Add(usage_buffer, u)
         /\ temperature_buffer' = temperature_buffer
         /\ latest' = [usage |-> u, temperature |-> t]
    /\ fresh' = Min(fresh + 1, temperature_buffer.size)
    /\ prev_state' = "none"
    /\ applied' = NoApply
    /\ pc' = AfterUpdate
    /\ UNCHANGED <<overflow_checks, tableVars, bufVars, state, gathers, term,
                   device>>

\* while !term.load(..) { state_machine.update(&rx570); ..
\* with the readings of gpu_busy_percent and temp1_input drawn from the
\* given sets
UpdateFrom(usages, temperatures) ==
    /\ pc = "update"
    /\ ~term
    /\ \E u \in usages, t \in temperatures :
         /\ usage_buffer' = Add(usage_buffer, u)
         /\ temperature_buffer' = Add(temperature_buffer, t)
         /\ latest' = [usage |-> u, temperature |-> t]
    /\ fresh' = Min(fresh + 1, temperature_buffer.size)
    /\ prev_state' = "none"
    /\ applied' = NoApply
    /\ pc' = AfterUpdate
    /\ UNCHANGED <<overflow_checks, tableVars, bufVars, state, gathers, term,
                   device>>

Update == UpdateFrom(UsageSamples, TempSamples)

\* state_machine.step(&rx570)
Step ==
    /\ pc = "step"
    /\ IF StepReadPanics(usage_buffer, temperature_buffer, overflow_checks)
       THEN /\ pc' = "panic"
            /\ UNCHANGED <<state, device, prev_state, applied, fresh>>
       ELSE LET new_state == StepTarget(state, usage_buffer,
                                        temperature_buffer, overflow_checks)
            IN  /\ prev_state' = state
                /\ state' = new_state
                /\ fresh' = IF state = "CoolOff" /\ new_state = "Idle"
                            THEN 0 ELSE fresh
                /\ IF StepApplies(state, new_state)
                   THEN /\ device' = Apply(device, new_state)
                        /\ applied' =
                             [profile |-> new_state, by |-> "step",
                              writes |-> ApplyWritten(device, new_state)]
                        /\ pc' = IF ApplyPanics(device, new_state)
                                 THEN "panic" ELSE AfterStep
                   ELSE /\ device' = device
                        /\ applied' = NoApply
                        /\ pc' = AfterStep
    /\ UNCHANGED <<overflow_checks, tableVars, bufVars, usage_buffer,
                   temperature_buffer,
                   gathers, term, latest>>

\* if gathers % gathers_per_reapply == 0 { state_machine.apply(&rx570); }
Reapply ==
    /\ pc = "reapply"
    /\ device' = Apply(device, state)
    /\ pc' = IF ApplyPanics(device, state) THEN "panic" ELSE "sleep"
    /\ applied' = [profile |-> state, by |-> "reapply",
                   writes |-> ApplyWritten(device, state)]
    /\ UNCHANGED <<overflow_checks, tableVars, bufVars, state, usage_buffer,
                   temperature_buffer, gathers, term, prev_state, latest,
                   fresh>>

\* thread::sleep(sleep_time); gathers += 1; }
Sleep ==
    /\ pc = "sleep"
    /\ gathers' = (gathers + 1) % GathersPerReapply
    /\ pc' = "update"
    /\ UNCHANGED <<overflow_checks, tableVars, bufVars, state, usage_buffer,
                   temperature_buffer, term, device, prev_state, latest, fresh,
                   applied>>

\* the loop ends: set_force_performance_level(Auto); reset_pstates()
Restore ==
    /\ pc = "update"
    /\ term
    /\ device' = [device EXCEPT !.level = "auto", !.od = Append(@, "r")]
    /\ pc' = "done"
    /\ UNCHANGED <<overflow_checks, tableVars, bufVars, state, usage_buffer,
                   temperature_buffer, gathers, term, prev_state, latest, fresh,
                   applied>>

Next ==
    \/ Signal
    \/ OverclockCore
    \/ OverclockMemory
    \/ CommitPstates
    \/ FirstApply
    \/ Update
    \/ Step
    \/ Reapply
    \/ Sleep
    \/ Restore

Spec == Init /\ [][Next]_vars

\* The statements of main run one after the other and thread::sleep returns:
\* the process takes its next step whenever it has one.  The signal is the
\* environment's and need not come.
\* The readings of the runs checked for liveness: an idle, a half busy or a
\* fully busy card, cool or hot.
LiveUsageSamples == {0, 60, 100}

LiveTempSamples == {40, 55}

UpdateLive == UpdateFrom(LiveUsageSamples, LiveTempSamples)

MainStep ==
    \/ OverclockCore
    \/ OverclockMemory
    \/ CommitPstates
    \/ FirstApply
    \/ UpdateLive
    \/ Step
    \/ Reapply
    \/ Sleep
    \/ Restore

NextLive == Signal \/ MainStep

\* The positions of main.
PcValues ==
    {"overclock_core", "overclock_memory", "commit", "first_apply", "update",
     "step", "reapply", "sleep", "done", "panic"}

\* The process executes the statement it is at.  A statement of MainStep is
\* enabled wherever main is running and each of them moves pc, and nothing
\* else does (MainStepEnabledWhileRunning, OnlyMainStepMovesPc): that pc
\* moves whenever it can is weak fairness of MainStep.
Advance == Running /\ pc' \in PcValues /\ pc' # pc

MainStepEnabledWhileRunning == Running => ENABLED MainStep

OnlyMainStepMovesPc == [][pc' # pc <=> MainStep]_vars

SpecLive == Init /\ [][NextLive]_vars /\ WF_pc(Advance)

\* The runs checked for the hysteresis between Idle and CoolOff: an idle card,
\* cool or hot, and a temperature buffer long enough to still hold, at a
\* step(), samples ingested before the step() before it (main ingests
\* gathers_per_update = 2 samples per step() into a buffer of 20).
HystTempCap == 5

HystTempSamples == {40, 55}

InitHyst ==
    /\ BufAtRest
    /\ TableAtRest
    /\ overflow_checks \in BOOLEAN
    /\ state = "Idle"
    /\ usage_buffer = New(UsageCap)
    /\ temperature_buffer = New(HystTempCap)
    /\ gathers = 0
    /\ term = FALSE
    /\ pc = "overclock_core"
    /\ \E range \in PowerRanges : device = DeviceInit(range)
    /\ prev_state = "none"
    /\ latest = <<>>
    /\ applied = NoApply
    /\ fresh = HystTempCap

UpdateHyst == UpdateFrom({0}, HystTempSamples)

NextHyst ==
    \/ Signal
    \/ OverclockCore
    \/ OverclockMemory
    \/ CommitPstates
    \/ FirstApply
    \/ UpdateHyst
    \/ Step
    \/ Reapply
    \/ Sleep
    \/ Restore

SpecHyst == InitHyst /\ [][NextHyst]_vars

\* The runs checked under constant telemetry: the first update() reads any
\* usage and temperature, every later one reads the same pair again.
UpdateConst ==
    /\ Update
    /\ latest # <<>> => latest' = latest

MainStepConst ==
    \/ OverclockCore
    \/ OverclockMemory
    \/ CommitPstates
    \/ FirstApply
    \/ UpdateConst
    \/ Step
    \/ Reapply
    \/ Sleep
    \/ Restore

NextConst == Signal \/ MainStepConst

SpecConst == Init /\ [][NextConst]_vars /\ WF_pc(Advance)

----------------------------------------------------------------------------
(* polaris_gpu_table.rs: PolarisGpuTable.  A RangeInclusive is the pair      *)
(* <<start, end>>, a PolarisGpuState the record of its clock and voltage.    *)

MaxStates == 2      \* most states of one part in a parsed table

Parts == {"Core", "Memory"}

\* RangeInclusive::contains
Contains(range, x) == range[1] <= x /\ x <= range[2]

\* Mutant of ClockRange: the core-clock range is returned for both parts.
MutClockRangeAlwaysCore(t, part) == t.sclk_range

\* PolarisGpuTable::clock_range
ClockRange(t, part) == IF part = "Core" THEN t.sclk_range ELSE t.mclk_range

\* PolarisGpuTable::states
States(t, part) == IF part = "Core" THEN t.core_states ELSE t.memory_states

\* PolarisGpuTable::get_state: the state at the index, if the part has one
GetState(t, part, index) ==
    IF index < Len(States(t, part))
    THEN [some |-> TRUE, state |-> States(t, part)[index + 1]]
    ELSE [some |-> FALSE]

\* Mutant of ValidateState: the clock is tested before the voltage.
MutValidateStateClockFirst(t, part, st) ==
    IF ~Contains(ClockRange(t, part), st.clock) THEN "ClockNotInRange"
    ELSE IF ~Contains(t.voltage_range, st.voltage) THEN "VoltageNotInRange"
    ELSE "Ok"

\* PolarisGpuTable::validate_state
ValidateState(t, part, st) ==
    IF ~Contains(t.voltage_range, st.voltage) THEN "VoltageNotInRange"
    ELSE IF ~Contains(ClockRange(t, part), st.clock) THEN "ClockNotInRange"
    ELSE "Ok"

\* Mutant of WithState: the state is stored in the list of the other part.
MutWithStateOtherPart(t, part, index, st) ==
    IF part = "Core"
    THEN [t EXCEPT !.memory_states =
                     [i \in DOMAIN @ |-> IF i = index + 1 THEN st ELSE @[i]]]
    ELSE [t EXCEPT !.core_states =
                     [i \in DOMAIN @ |-> IF i = index + 1 THEN st ELSE @[i]]]

\* Mutant of WithState: the state is stored at every index of the part.
MutWithStateEveryIndex(t, part, index, st) ==
    IF part = "Core"
    THEN [t EXCEPT !.core_states = [i \in DOMAIN @ |-> st]]
    ELSE [t EXCEPT !.memory_states = [i \in DOMAIN @ |-> st]]

\* vec[index] = state of set_state
WithState(t, part, index, st) ==
    IF part = "Core"
    THEN [t EXCEPT !.core_states[index + 1] = st]
    ELSE [t EXCEPT !.memory_states[index + 1] = st]

\* Mutant of SetState: the state is stored before it is validated.
MutSetStateStoresFirst(t, part, index, st) ==
    IF index < Len(States(t, part))
    THEN [result |-> ValidateState(t, part, st),
          table |-> WithState(t, part, index, st)]
    ELSE [result |-> IF ValidateState(t, part, st) = "Ok" THEN "InvalidIndex"
                     ELSE ValidateState(t, part, st),
          table |-> t]

\* PolarisGpuTable::set_state: its result and the table afterwards
SetState(t, part, index, st) ==
    IF ValidateState(t, part, st) = "Ok"
    THEN IF index < Len(States(t, part))
         THEN [result |-> "Ok", table |-> WithState(t, part, index, st)]
         ELSE [result |-> "InvalidIndex", table |-> t]
    ELSE [result |-> ValidateState(t, part, st), table |-> t]

\* The ranges of the table parsed in the test parses_pstate_table.
VoltageRange == <<750, 1150>>

SclkRange == <<300, 2000>>

MclkRange == <<300, 2250>>

\* A state of that table within every range.
ParsedState == [clock |-> 1000, voltage |-> 800]

\* The candidate states passed to set_state: the clock at the lower end of
\* both clock ranges, above the core range only and above both; the voltage
\* below the range, at its upper end and above it.
CandidateClocks == {300, 2001, 2251}

CandidateVoltages == {700, 1150, 1200}

CandidateStates ==
    [clock : CandidateClocks, voltage : CandidateVoltages]

\* A table as try_parse returns it: the three ranges and at least one state
\* of each part.
InitTable ==
    /\ MainAtRest
    /\ BufAtRest
    /\ overflow_checks \in BOOLEAN
    /\ \E n \in 1..MaxStates, m \in 1..MaxStates :
         table = [voltage_range |-> VoltageRange, sclk_range |-> SclkRange,
                  mclk_range |-> MclkRange,
                  memory_states |-> [i \in 1..m |-> ParsedState],
                  core_states |-> [i \in 1..n |-> ParsedState]]
    /\ call = NoCall
    /\ text = <<>>
    /\ parsed = NotParsed
    /\ live = NoTable
    /\ derived = NoDerived
    /\ fan = NoFan
    /\ pstate = NoPstate
    /\ pct = NoPercent

\* table.set_state(part, index, state) with a state of candidates
TableSetStateFrom(candidates) ==
    \E part \in Parts, index \in 0..MaxStates, st \in candidates :
        /\ table' = SetState(table, part, index, st).table
        /\ call' = [made |-> TRUE, part |-> part, index |-> index,
                    state |-> st,
                    result |-> SetState(table, part, index, st).result,
                    before |-> table]
        /\ UNCHANGED <<overflow_checks, bufVars, mainVars, text, parsed,
                       live, derived, fan, pstate,
                       pct>>

\* table.set_state(part, index, state)
TableSetState == TableSetStateFrom(CandidateStates)

NextTable == TableSetState

SpecTable == InitTable /\ [][NextTable]_vars

----------------------------------------------------------------------------
(* polaris_gpu_table.rs: try_parse.  The text is the sequence of its lines.  *)
(* A line is what line.trim().split(":") makes of it: prefix is the trimmed  *)
(* first part, data the tokens split_whitespace() finds in the trimmed       *)
(* second part (<<>> when the line has no colon or nothing after it).  A     *)
(* token is the sequence of its symbols: the decimal digits, "+", the units  *)
(* "MHz" and "mV" and the letter "x".  Numbers stay below 2^31, so the       *)
(* overflow error of parse::<u32> is not exercised.                          *)

Digits == {"0", "1", "2", "3", "4", "5", "6", "7", "8", "9"}

DigitValue(d) ==
    CASE d = "0" -> 0 [] d = "1" -> 1 [] d = "2" -> 2 [] d = "3" -> 3
      [] d = "4" -> 4 [] d = "5" -> 5 [] d = "6" -> 6 [] d = "7" -> 7
      [] d = "8" -> 8 [] d = "9" -> 9

\* Option<T>
None == [some |-> FALSE]

Some(v) == [some |-> TRUE, value |-> v]

RECURSIVE DecimalValue(_)
\* the number a sequence of digits denotes
DecimalValue(ds) ==
    IF ds = <<>> THEN 0
    ELSE 10 * DecimalValue(SubSeq(ds, 1, Len(ds) - 1))
           + DigitValue(ds[Len(ds)])

\* str::parse::<u32>: one optional "+" and then at least one digit, digits
\* only
ParseU32(chars) ==
    LET body == IF Len(chars) > 1 /\ chars[1] = "+" THEN Tail(chars)
                ELSE chars
    IN  IF body = <<>> \/ \E i \in DOMAIN body : body[i] \notin Digits
        THEN None
        ELSE Some(DecimalValue(body))

\* PolarisGpuTable::parse_unit: the token must end with the unit; every
\* occurrence of the unit is removed and the rest parsed as a u32
ParseUnit(token, unit) ==
    IF token # <<>> /\ token[Len(token)] = unit
    THEN ParseU32(SelectSeq(token, LAMBDA s : s # unit))
    ELSE None

\* The local variables of try_parse before the first line; an Option of a
\* range is None or Some(<<start, end>>), panic the message of the panic
\* that ended the call ("" if none did).
ParserStart ==
    [state |-> "Initial", voltage_range |-> None, sclk_range |-> None,
     mclk_range |-> None, core_states |-> <<>>, memory_states |-> <<>>,
     panic |-> ""]

ParserPanic(p, message) == [p EXCEPT !.panic = message]

\* A line with data while a state list is parsed: push one state
ParseStateLine(p, line) ==
    IF Len(line.data) < 2 THEN ParserPanic(p, "No voltage")
    ELSE LET clock == ParseUnit(line.data[1], "MHz")
             voltage == ParseUnit(line.data[2], "mV")
         IN  IF ~clock.some THEN ParserPanic(p, "Invalid clock value")
             ELSE IF ~voltage.some THEN ParserPanic(p, "Invalid voltage value")
             ELSE LET st == [clock |-> clock.value,
                             voltage |-> voltage.value]
                  IN  IF p.state = "Core"
                      THEN [p EXCEPT !.core_states = Append(@, st)]
                      ELSE [p EXCEPT !.memory_states = Append(@, st)]

\* A line with data while the ranges are parsed: set the range it names
ParseRangeLine(p, line) ==
    IF Len(line.data) < 2 THEN ParserPanic(p, "No upper voltage bound")
    ELSE IF line.prefix \notin {"SCLK", "MCLK", "VDDC"}
    THEN ParserPanic(p, "Unknown range target")
    ELSE LET unit == IF line.prefix = "VDDC" THEN "mV" ELSE "MHz"
             lower == ParseUnit(line.data[1], unit)
             upper == ParseUnit(line.data[2], unit)
             range == Some(<<lower.value, upper.value>>)
         IN  IF ~lower.some THEN ParserPanic(p, "Invalid lower range bound")
             ELSE IF ~upper.some
             THEN ParserPanic(p, "Invalid upper range bound")
             ELSE CASE line.prefix = "SCLK" -> [p EXCEPT !.sclk_range = range]
                    [] line.prefix = "MCLK" -> [p EXCEPT !.mclk_range = range]
                    [] line.prefix = "VDDC" ->
                           [p EXCEPT !.voltage_range = range]

\* Mutant of ParseHeaderLine: the memory header selects the core list.
MutParseHeaderLineMemoryAsCore(p, line) ==
    CASE line.prefix \in {"OD_SCLK", "OD_MCLK"} -> [p EXCEPT !.state = "Core"]
      [] line.prefix = "OD_RANGE" -> [p EXCEPT !.state = "Ranges"]
      [] line.prefix = "" -> p
      [] OTHER -> ParserPanic(p, "Unknown prefix")

\* A line without data: a section header or a blank line
ParseHeaderLine(p, line) ==
    CASE line.prefix = "OD_SCLK" -> [p EXCEPT !.state = "Core"]
      [] line.prefix = "OD_MCLK" -> [p EXCEPT !.state = "Memory"]
      [] line.prefix = "OD_RANGE" -> [p EXCEPT !.state = "Ranges"]
      [] line.prefix = "" -> p
      [] OTHER -> ParserPanic(p, "Unknown prefix")

\* The body of the loop of try_parse
ParseLine(p, line) ==
    IF line.data # <<>>
    THEN CASE p.state = "Initial" ->
                  ParserPanic(p, "Don't know what I'm parsing")
           [] p.state \in {"Core", "Memory"} -> ParseStateLine(p, line)
           [] p.state = "Ranges" -> ParseRangeLine(p, line)
    ELSE ParseHeaderLine(p, line)

RECURSIVE ParseLines(_, _)
\* for line in data.split("\n"), ended by the first panic
ParseLines(p, lines) ==
    IF lines = <<>> \/ p.panic # "" THEN p
    ELSE ParseLines(ParseLine(p, Head(lines)), Tail(lines))

\* The end of try_parse: Some(table) if the three ranges and a state of each
\* part have been read, else None
ParseResult(p) ==
    IF p.panic # "" THEN [kind |-> "Panic", message |-> p.panic]
    ELSE IF /\ p.voltage_range.some /\ p.sclk_range.some /\ p.mclk_range.some
            /\ Len(p.memory_states) > 0 /\ Len(p.core_states) > 0
    THEN [kind |-> "Some",
          table |-> [voltage_range |-> p.voltage_range.value,
                     sclk_range |-> p.sclk_range.value,
                     mclk_range |-> p.mclk_range.value,
                     memory_states |-> p.memory_states,
                     core_states |-> p.core_states]]
    ELSE [kind |-> "None"]

\* PolarisGpuTable::try_parse
TryParse(lines) == ParseResult(ParseLines(ParserStart, lines))

----------------------------------------------------------------------------

(* The texts handed to try_parse.  They are written the way the driver      *)
(* writes pp_od_clk_voltage: a number is its decimal digits followed by its  *)
(* unit.                                                                     *)

DigitNames == <<"0", "1", "2", "3", "4", "5", "6", "7", "8", "9">>

RECURSIVE DecimalDigits(_)
\* the decimal digits of a number
DecimalDigits(n) ==
    IF n < 10 THEN <<DigitNames[n + 1]>>
    ELSE Append(DecimalDigits(n \div 10), DigitNames[(n % 10) + 1])

Token(n, unit) == Append(DecimalDigits(n), unit)

HeaderLine(name) == [prefix |-> name, data |-> <<>>]

BlankLine == HeaderLine("")

StateLine(index, clock, voltage) ==
    [prefix |-> DigitNames[index + 1],
     data |-> <<Token(clock, "MHz"), Token(voltage, "mV")>>]

RangeLine(name, lower, upper, unit) ==
    [prefix |-> name, data |-> <<Token(lower, unit), Token(upper, unit)>>]

\* The states of the text of the test parses_pstate_table, as pairs of
\* clock and voltage.
CanonicalCore ==
    << <<300, 750>>, <<588, 765>>, <<952, 931>>, <<1041, 1006>>,
       <<1106, 1068>>, <<1168, 1131>>, <<1209, 1150>>, <<1244, 1150>> >>

CanonicalMemory == << <<300, 750>>, <<1000, 800>>, <<1500, 900>> >>

\* The states a list of pairs of clock and voltage stands for.
ExpectedStates(pairs) ==
    [i \in 1..Len(pairs) |-> [clock |-> pairs[i][1], voltage |-> pairs[i][2]]]

\* The section of a state list: its header and one line for each pair.
StateSection(name, pairs) ==
    <<HeaderLine(name)>>
      \o [i \in 1..Len(pairs) |-> StateLine(i - 1, pairs[i][1], pairs[i][2])]

\* The range section, its three lines in the order of the test or another.
RangeSection(order) ==
    LET lines == [SCLK |-> RangeLine("SCLK", SclkRange[1], SclkRange[2], "MHz"),
                  MCLK |-> RangeLine("MCLK", MclkRange[1], MclkRange[2], "MHz"),
                  VDDC |-> RangeLine("VDDC", VoltageRange[1], VoltageRange[2],
                                     "mV")]
    IN  <<HeaderLine("OD_RANGE")>> \o [i \in 1..Len(order) |-> lines[order[i]]]

RangeOrders == {<<"SCLK", "MCLK", "VDDC">>, <<"VDDC", "SCLK", "MCLK">>}

\* A well-formed text: the first n core states and the first m memory
\* states of the test, then the ranges, between two blank lines.
WellFormedText(n, m, order) ==
    <<BlankLine>> \o StateSection("OD_SCLK", SubSeq(CanonicalCore, 1, n))
      \o StateSection("OD_MCLK", SubSeq(CanonicalMemory, 1, m))
      \o RangeSection(order) \o <<BlankLine>>

\* The text of the test parses_pstate_table.
CanonicalText ==
    WellFormedText(Len(CanonicalCore), Len(CanonicalMemory),
                   <<"SCLK", "MCLK", "VDDC">>)

WellFormedTexts ==
    {CanonicalText} \cup
    {WellFormedText(n, m, order) :
       n \in 1..MaxStates, m \in 1..MaxStates, order \in RangeOrders}

\* Core sections with a line the grammar does not allow, or no section.
BrokenCoreSections ==
    { <<>>,
      <<HeaderLine("OD_SCLK")>>,
      <<StateLine(0, 300, 750)>>,
      <<HeaderLine("OD_FOO")>>,
      <<HeaderLine("OD_SCLK"),
        [prefix |-> "0", data |-> <<Token(300, "MHz")>>]>>,
      <<HeaderLine("OD_SCLK"),
        [prefix |-> "0",
         data |-> << <<"3", "x", "0", "MHz">>, Token(750, "mV") >>]>>,
      <<HeaderLine("OD_SCLK"),
        [prefix |-> "0", data |-> <<Token(300, "MHz"), <<"mV">> >>]>>,
      <<HeaderLine("OD_SCLK"),
        [prefix |-> "0", data |-> <<Token(300, "mV"), Token(750, "mV")>>]>> }

\* Core sections the parser reads: states of the test, one written with a
\* sign and a repeated unit, one with a clock above the core-clock range.
CoreSections ==
    BrokenCoreSections \cup
    {StateSection("OD_SCLK", SubSeq(CanonicalCore, 1, n)) :
       n \in 1..MaxStates} \cup
    { <<HeaderLine("OD_SCLK"),
        [prefix |-> "0",
         data |-> << <<"+", "3", "0", "0", "MHz">>,
                     <<"mV", "7", "5", "0", "mV">> >>]>>,
      StateSection("OD_SCLK", << <<2500, 750>> >>) }

\* Memory sections without a state, or no section.
BrokenMemorySections == { <<>>, <<HeaderLine("OD_MCLK")>> }

\* Memory sections the parser reads: states of the test, one with a voltage
\* above the voltage range.
MemorySections ==
    BrokenMemorySections \cup
    { StateSection("OD_MCLK", << <<1000, 1200>> >>) } \cup
    {StateSection("OD_MCLK", SubSeq(CanonicalMemory, 1, m)) :
       m \in 1..MaxStates}

\* Range sections with a range missing, unknown, incomplete or in the wrong
\* unit, or no section.
BrokenRangeSections ==
    { <<>>,
      <<HeaderLine("OD_RANGE")>>,
      RangeSection(<<"SCLK", "MCLK">>),
      RangeSection(<<"SCLK", "MCLK">>)
        \o <<RangeLine("FOO", 750, 1150, "mV")>>,
      RangeSection(<<"SCLK", "MCLK">>)
        \o <<[prefix |-> "VDDC", data |-> <<Token(750, "mV")>>]>>,
      RangeSection(<<"SCLK", "MCLK">>)
        \o <<RangeLine("VDDC", 750, 1150, "MHz")>> }

RangeSections ==
    BrokenRangeSections \cup { RangeSection(<<"SCLK", "MCLK", "VDDC">>) }

\* The texts with a structural failure in at least one section.
BrokenTexts ==
    {c \o m \o r : c \in BrokenCoreSections, m \in MemorySections,
                   r \in RangeSections} \cup
    {c \o m \o r : c \in CoreSections, m \in BrokenMemorySections,
                   r \in RangeSections} \cup
    {c \o m \o r : c \in CoreSections, m \in MemorySections,
                   r \in BrokenRangeSections}

Texts ==
    WellFormedTexts \cup
    {c \o m \o r : c \in CoreSections, m \in MemorySections,
                   r \in RangeSections}

InitParse ==
    /\ MainAtRest
    /\ BufAtRest
    /\ overflow_checks = FALSE
    /\ table = NoTable
    /\ call = NoCall
    /\ text \in Texts
    /\ parsed = NotParsed
    /\ live = NoTable
    /\ derived = NoDerived
    /\ fan = NoFan
    /\ pstate = NoPstate
    /\ pct = NoPercent

\* let table = PolarisGpuTable::try_parse(text)
Parse ==
    /\ parsed = NotParsed
    /\ parsed' = TryParse(text)
    /\ table' = IF TryParse(text).kind = "Some" THEN TryParse(text).table
                ELSE NoTable
    /\ UNCHANGED <<overflow_checks, bufVars, mainVars, call, text, live,
                   derived, fan, pstate,
                   pct>>

\* The candidate states passed to set_state after parsing: one within every
\* range and one with its voltage above the range.
ParsedCandidates ==
    {[clock |-> 300, voltage |-> 1150], [clock |-> 300, voltage |-> 1200]}

\* table.set_state(part, index, state) on the table try_parse returned
ParsedSetState ==
    parsed.kind = "Some" /\ TableSetStateFrom(ParsedCandidates)

NextParse == Parse \/ ParsedSetState

SpecParse == InitParse /\ [][NextParse]_vars

----------------------------------------------------------------------------

(* polaris_gpu.rs: modify_pstate and parse_acceptable_range.  The text read  *)
(* back from pp_od_clk_voltage is the sequence of lines try_parse is given:  *)
(* a header line is its name followed by a colon, every other line that is   *)
(* not blank has a colon after its prefix.                                   *)

\* line.contains(entry): the prefixes that have the entry as a substring
\* (the tokens of a line hold digits, signs and units only)
LineContains(line, entry) ==
    \/ line.prefix = entry
    \/ entry = "SCLK" /\ line.prefix = "OD_SCLK"
    \/ entry = "MCLK" /\ line.prefix = "OD_MCLK"

\* data.split("\n").skip_while(|line| line.trim() != "OD_RANGE:")
SkipToRanges(lines) ==
    LET at == {i \in 1..Len(lines) : lines[i] = HeaderLine("OD_RANGE")}
    IN  IF at = {} THEN <<>>
        ELSE SubSeq(lines, CHOOSE i \in at : \A j \in at : i <= j, Len(lines))

\* the part after the colon with every "MHz" removed, split at white space
RangeWords(line) ==
    SelectSeq([i \in 1..Len(line.data) |->
                  SelectSeq(line.data[i], LAMBDA s : s # "MHz")],
              LAMBDA word : word # <<>>)

RangePanic(message) == [kind |-> "Panic", message |-> message]

\* PolarisGpu::parse_acceptable_range: the first line from the OD_RANGE
\* header on that contains the entry, its two bounds parsed as u32 after
\* "MHz" was removed; every expect() that fails is a panic
ParseAcceptableRange(lines, entry) ==
    LET found == SelectSeq(SkipToRanges(lines),
                           LAMBDA l : LineContains(l, entry))
    IN  IF found = <<>> THEN RangePanic("No current memory pstate?!")
        ELSE LET words == RangeWords(found[1])
             IN  IF Len(words) < 1 THEN RangePanic("Bad range lower bound")
                 ELSE IF Len(words) < 2
                 THEN RangePanic("Bad range upper bound")
                 ELSE IF ~ParseU32(words[1]).some
                 THEN RangePanic("Lower bound is not an integer")
                 ELSE IF ~ParseU32(words[2]).some
                 THEN RangePanic("Upper bound is not an integer")
                 ELSE [kind |-> "Range",
                       range |-> <<ParseU32(words[1]).value,
                                   ParseU32(words[2]).value>>]

\* modify_pstate_core passes "SCLK", modify_pstate_memory "MCLK"
KindOf(part) == IF part = "Core" THEN "SCLK" ELSE "MCLK"

\* PolarisGpu::modify_pstate: is_file is whether pp_od_clk_voltage exists,
\* write what try_write returned ("Ok" or the kind of the error), data the
\* text read back after a rejected write
ModifyPstate(clock, voltage, kind, is_file, write, data) ==
    IF ~is_file THEN [kind |-> "Disabled"]
    ELSE IF write = "Ok" THEN [kind |-> "Ok"]
    ELSE IF write = "InvalidData"
    THEN LET clock_range == ParseAcceptableRange(data, kind)
             voltage_range == ParseAcceptableRange(data, "VDDC")
         IN  IF clock_range.kind = "Panic" THEN clock_range
             ELSE IF voltage_range.kind = "Panic" THEN voltage_range
             ELSE IF ~Contains(clock_range.range, clock)
             THEN [kind |-> "ClockNotInRange", range |-> clock_range.range]
             ELSE IF ~Contains(voltage_range.range, voltage)
             THEN [kind |-> "VoltageNotInRange",
                   range |-> voltage_range.range]
             ELSE RangePanic("I don't know what I've done wrong! :(")
    ELSE [kind |-> "Unknown", error |-> write]

\* The clocks and voltages requested: the overclock of main and values
\* outside the ranges of the text.
RequestedClocks == {1275, 1900, 2500}

RequestedVoltages == {900, 1000, 1200}

\* What try_write returns: success, EINVAL or another error.
WriteResults == {"Ok", "InvalidData", "PermissionDenied"}

RangeNames == {"SCLK", "MCLK", "VDDC"}

InitPstate ==
    /\ MainAtRest
    /\ BufAtRest
    /\ overflow_checks = FALSE
    /\ table = NoTable
    /\ call = NoCall
    /\ text \in WellFormedTexts
    /\ parsed = NotParsed
    /\ live = NoTable
    /\ derived = NoDerived
    /\ fan = NoFan
    /\ pstate = NoPstate
    /\ pct = NoPercent

\* gpu.modify_pstate_core(..) or gpu.modify_pstate_memory(..) while the
\* device holds the text
ModifyPstateCall ==
    /\ \E part \in Parts, clock \in RequestedClocks,
          voltage \in RequestedVoltages, is_file \in BOOLEAN,
          write \in WriteResults :
         pstate' = [op |-> "modify_pstate", part |-> part, clock |-> clock,
                    voltage |-> voltage, is_file |-> is_file,
                    write |-> write,
                    result |-> ModifyPstate(clock, voltage, KindOf(part),
                                            is_file, write, text)]
    /\ UNCHANGED <<overflow_checks, bufVars, mainVars, table, call, text,
                   parsed, live, derived, fan, pct>>

\* PolarisGpu::parse_acceptable_range(&text, entry)
ParseRangeCall ==
    /\ \E entry \in RangeNames :
         pstate' = [op |-> "parse_acceptable_range", entry |-> entry,
                    result |-> ParseAcceptableRange(text, entry)]
    /\ UNCHANGED <<overflow_checks, bufVars, mainVars, table, call, text,
                   parsed, live, derived, fan, pct>>

NextPstate == Parse \/ ModifyPstateCall \/ ParseRangeCall

SpecPstate == InitPstate /\ [][NextPstate]_vars

----------------------------------------------------------------------------

(* Derived tables.  The controller keeps the table it read from the device  *)
(* (live), clones it, edits the clone with set_state and sends the device    *)
(* the difference.  A command is the text written to pp_od_clk_voltage,      *)
(* kept as the tuple of its fields.                                          *)

\* Mutant of ModifyPstateCoreCmd: the command carries the letter of the
\* memory part.
MutModifyPstateCoreCmdMemoryLetter(index, st) ==
    <<"m", index, st.clock, st.voltage>>

\* modify_pstate_core: format!("s {} {} {}", state, clock, voltage)
ModifyPstateCoreCmd(index, st) == <<"s", index, st.clock, st.voltage>>

\* modify_pstate_memory: format!("m {} {} {}", state, clock, voltage)
ModifyPstateMemoryCmd(index, st) == <<"m", index, st.clock, st.voltage>>

\* commit_pstates: "c"
CommitPstatesCmd == <<"c">>

\* The command that sets the state at an index of a part.
SetStateCmd(part, index, st) ==
    IF part = "Core" THEN ModifyPstateCoreCmd(index, st)
    ELSE ModifyPstateMemoryCmd(index, st)

\* The indices at which a part differs between two tables, ascending.
DifferingIndices(current, target, part) ==
    LET n == Min(Len(States(current, part)), Len(States(target, part)))
    IN  SelectSeq([i \in 1..n |-> i - 1],
                  LAMBDA i : States(current, part)[i + 1]
                               # States(target, part)[i + 1])

\* The set-state commands of one part.
PartCommands(current, target, part) ==
    LET indices == DifferingIndices(current, target, part)
    IN  [k \in 1..Len(indices) |->
           SetStateCmd(part, indices[k], States(target, part)[indices[k] + 1])]

\* diff_to_commands(current, target)
DiffToCommands(current, target) ==
    LET commands == PartCommands(current, target, "Core")
                      \o PartCommands(current, target, "Memory")
    IN  IF commands = <<>> THEN <<>> ELSE Append(commands, CommitPstatesCmd)

\* The three immutable ranges of a table.
Ranges(t) == <<t.voltage_range, ClockRange(t, "Core"), ClockRange(t, "Memory")>>

\* Applying a derived table against the live table: its result and the
\* commands written to the device
ApplyTable(current, target) ==
    IF Ranges(current) = Ranges(target)
    THEN [result |-> "Ok", commands |-> DiffToCommands(current, target)]
    ELSE [result |-> "RangesImmutableMismatch", commands |-> <<>>]

\* A state clamped to a ceiling: its voltage and, in the strict variant,
\* its clock do not exceed the ceiling's
Clamped(st, ceiling, strict) ==
    [clock |-> IF strict THEN Min(st.clock, ceiling.clock) ELSE st.clock,
     voltage |-> Min(st.voltage, ceiling.voltage)]

\* The set_state calls that make a part of a performance table: every state
\* clamped, then the last index forced to the ceiling
PerformanceEdits(source, part, ceiling, strict) ==
    LET n == Len(States(source, part))
    IN  [i \in 1..n |->
           [part |-> part, index |-> i - 1,
            state |-> Clamped(States(source, part)[i], ceiling, strict)]]
          \o <<[part |-> part, index |-> n - 1, state |-> ceiling]>>

RECURSIVE SetStates(_, _)
\* The set_state calls of edits made in order on a table, ended by the
\* first that fails
SetStates(t, edits) ==
    IF edits = <<>> THEN [result |-> "Ok", table |-> t]
    ELSE LET e == Head(edits)
             r == SetState(t, e.part, e.index, e.state)
         IN  IF r.result = "Ok" THEN SetStates(r.table, Tail(edits))
             ELSE r

\* The performance table of a source table: a clone with the targeted
\* parts capped by the ceiling
PerformanceTable(source, ceiling, targets, strict) ==
    SetStates(source,
              (IF "Core" \in targets
               THEN PerformanceEdits(source, "Core", ceiling, strict)
               ELSE <<>>)
                \o (IF "Memory" \in targets
                    THEN PerformanceEdits(source, "Memory", ceiling, strict)
                    ELSE <<>>))

\* The states set_state is given while a table is derived.
DerivedCandidates ==
    {[clock |-> 300, voltage |-> 750], [clock |-> 600, voltage |-> 800]}

\* The ceilings of a performance table: within the ranges of both parts
\* with a voltage below some states', and above the core-clock range only.
Ceilings ==
    {[clock |-> 500, voltage |-> 760], [clock |-> 2100, voltage |-> 1150]}

\* Other ranges than those of the test, as another card would report them.
OtherVoltageRange == <<750, 1200>>

OtherSclkRange == <<300, 2250>>

OtherMclkRange == <<300, 2000>>

\* A table read from the device with n core and m memory states.
DeviceTable(n, m) ==
    [voltage_range |-> VoltageRange, sclk_range |-> SclkRange,
     mclk_range |-> MclkRange,
     memory_states |-> ExpectedStates(SubSeq(CanonicalMemory, 1, m)),
     core_states |-> ExpectedStates(SubSeq(CanonicalCore, 1, n))]

\* The table read from the device and the table to derive from: its clone,
\* or a table with the same states and one other range.
InitDerived ==
    /\ MainAtRest
    /\ BufAtRest
    /\ overflow_checks = FALSE
    /\ \E n \in 1..MaxStates, m \in 1..MaxStates : live = DeviceTable(n, m)
    /\ table \in {live,
                  [live EXCEPT !.voltage_range = OtherVoltageRange],
                  [live EXCEPT !.sclk_range = OtherSclkRange],
                  [live EXCEPT !.mclk_range = OtherMclkRange]}
    /\ call = NoCall
    /\ text = <<>>
    /\ parsed = NotParsed
    /\ derived = NoDerived
    /\ fan = NoFan
    /\ pstate = NoPstate
    /\ pct = NoPercent

\* table.set_state(part, index, state) on the derived table
DerivedSetState ==
    /\ \E part \in Parts, index \in 0..MaxStates, st \in DerivedCandidates :
         table' = SetState(table, part, index, st).table
    /\ derived' = NoDerived
    /\ UNCHANGED <<overflow_checks, bufVars, mainVars, call, text, parsed,
                   live, fan, pstate,
                   pct>>

\* diff_to_commands(live, table)
DiffDerived ==
    /\ derived' = [op |-> "diff", commands |-> DiffToCommands(live, table)]
    /\ UNCHANGED <<overflow_checks, bufVars, mainVars, table, call, text,
                   parsed, live, fan, pstate,
                   pct>>

\* The derived table is applied against the live table.
ApplyDerived ==
    /\ derived' = [op |-> "apply",
                   result |-> ApplyTable(live, table).result,
                   commands |-> ApplyTable(live, table).commands]
    /\ UNCHANGED <<overflow_checks, bufVars, mainVars, table, call, text,
                   parsed, live, fan, pstate,
                   pct>>

\* The performance table of the live table is built.
BuildPerformance ==
    \E ceiling \in Ceilings, targets \in {{"Core"}, {"Core", "Memory"}},
       strict \in BOOLEAN :
        LET built == PerformanceTable(live, ceiling, targets, strict)
        IN  /\ derived' = [op |-> "performance", ceiling |-> ceiling,
                           targets |-> targets, strict |-> strict,
                           result |-> built.result]
            /\ table' = IF built.result = "Ok" THEN built.table ELSE table
            /\ UNCHANGED <<overflow_checks, bufVars, mainVars, call, text,
                           parsed, live, fan, pstate,
                           pct>>

NextDerived ==
    DerivedSetState \/ DiffDerived \/ ApplyDerived \/ BuildPerformance

SpecDerived == InitDerived /\ [][NextDerived]_vars

----------------------------------------------------------------------------

(* FanCurve.  A control point is the record of its temperature in degrees    *)
(* and its duty cycle in percent.  A query temperature is a number of        *)
(* halves of a degree, and a duty cycle returned by evaluate the exact       *)
(* quotient num / den.                                                       *)

MaxPoints == 3      \* most control points of a curve

QueryScale == 2     \* a query temperature t stands for t / QueryScale degrees

PointTemperatures == {40, 50, 60}

PointDuties == {30, 40, 100}

Points == [temperature : PointTemperatures, duty : PointDuties]

\* Query temperatures: below, at, between and above the control points.
QueryTemperatures == {0, 79, 80, 81, 90, 100, 105, 110, 120, 121, 130}

RECURSIVE SeqsUpTo(_, _)
\* the sequences of at most n elements of a set
SeqsUpTo(S, n) ==
    IF n = 0 THEN {<<>>}
    ELSE SeqsUpTo(S, n - 1)
           \cup {Append(s, x) : s \in {q \in SeqsUpTo(S, n - 1) :
                                         Len(q) = n - 1}, x \in S}

\* A point put into a sorted list of points, after the points that are not
\* warmer than it.
InsertPoint(sorted, p) ==
    LET k == Cardinality({i \in DOMAIN sorted :
                            sorted[i].temperature <= p.temperature})
    IN  SubSeq(sorted, 1, k) \o <<p>> \o SubSeq(sorted, k + 1, Len(sorted))

RECURSIVE SortByTemperature(_)
\* the points sorted ascending by temperature
SortByTemperature(points) ==
    IF points = <<>> THEN <<>>
    ELSE InsertPoint(SortByTemperature(SubSeq(points, 1, Len(points) - 1)),
                     points[Len(points)])

\* FanCurve::new(points): fails on an empty list, else sorts and stores
FanCurveNew(points) ==
    IF points = <<>> THEN [ok |-> FALSE, points |-> <<>>]
    ELSE [ok |-> TRUE, points |-> SortByTemperature(points)]

\* The index of the lower point: the greatest control point whose
\* temperature is at most the truncated query temperature (0 if none is)
LowerIndex(curve, t) ==
    LET at_most == {i \in DOMAIN curve :
                      curve[i].temperature <= t \div QueryScale}
    IN  IF at_most = {} THEN 0
        ELSE CHOOSE i \in at_most : \A j \in at_most : j <= i

\* lower.duty + (t - lower.temperature) / (upper.temperature -
\* lower.temperature) * (upper.duty - lower.duty)
Interpolate(lower, upper, t) ==
    LET span == QueryScale * (upper.temperature - lower.temperature)
    IN  IF span = 0 THEN [ok |-> FALSE, num |-> 0, den |-> 0]
        ELSE [ok |-> TRUE,
              num |-> lower.duty * span
                        + (t - QueryScale * lower.temperature)
                            * (upper.duty - lower.duty),
              den |-> span]

\* Mutant of FanCurveEvaluate: the last point is interpolated with itself.
MutFanCurveEvaluateNoLastPointGuard(curve, t) ==
    LET lower == LowerIndex(curve, t)
        upper == IF lower = Len(curve) THEN lower ELSE lower + 1
    IN  IF lower = 0 THEN [ok |-> TRUE, num |-> curve[1].duty, den |-> 1]
        ELSE Interpolate(curve[lower], curve[upper], t)

\* Mutant of FanCurveEvaluate: the duty of the lower point is returned
\* between two points.
MutFanCurveEvaluateStep(curve, t) ==
    LET lower == LowerIndex(curve, t)
    IN  IF lower = 0 THEN [ok |-> TRUE, num |-> curve[1].duty, den |-> 1]
        ELSE [ok |-> TRUE, num |-> curve[lower].duty, den |-> 1]

\* FanCurve::evaluate(temperature)
FanCurveEvaluate(curve, t) ==
    LET lower == LowerIndex(curve, t)
        upper == IF lower = Len(curve) THEN lower ELSE lower + 1
    IN  IF lower = 0 THEN [ok |-> TRUE, num |-> curve[1].duty, den |-> 1]
        ELSE IF upper = lower
        THEN [ok |-> TRUE, num |-> curve[lower].duty, den |-> 1]
        ELSE Interpolate(curve[lower], curve[upper], t)

InitFan ==
    /\ MainAtRest
    /\ BufAtRest
    /\ overflow_checks = FALSE
    /\ table = NoTable
    /\ call = NoCall
    /\ text = <<>>
    /\ parsed = NotParsed
    /\ live = NoTable
    /\ derived = NoDerived
    /\ fan = NoFan
    /\ pstate = NoPstate
    /\ pct = NoPercent

\* let curve = FanCurve::new(points)
NewFanCurve ==
    /\ ~fan.made
    /\ \E points \in SeqsUpTo(Points, MaxPoints) :
         fan' = [made |-> TRUE, input |-> points,
                 ok |-> FanCurveNew(points).ok,
                 curve |-> FanCurveNew(points).points,
                 evaluated |-> FALSE, query |-> 0,
                 result |-> [ok |-> TRUE, num |-> 0, den |-> 1]]
    /\ UNCHANGED <<overflow_checks, bufVars, mainVars, table, call, text,
                   parsed, live, derived, pstate, pct>>

\* curve.evaluate(temperature)
EvaluateFanCurve ==
    /\ fan.made
    /\ fan.ok
    /\ \E t \in QueryTemperatures :
         fan' = [fan EXCEPT !.evaluated = TRUE, !.query = t,
                            !.result = FanCurveEvaluate(fan.curve, t)]
    /\ UNCHANGED <<overflow_checks, bufVars, mainVars, table, call, text,
                   parsed, live, derived, pstate, pct>>

NextFan == NewFanCurve \/ EvaluateFanCurve

SpecFan == InitFan /\ [][NextFan]_vars

----------------------------------------------------------------------------

(* clamped_percentage.rs and the fan speed of polaris_gpu.rs (the same code  *)
(* is FanControl::speed / set_speed of generic_sysfs_fan.rs).  An f64 is     *)
(* NaN or the exact quotient num / den, den > 0.  The percentages drawn are  *)
(* multiples of 1 / PercentScale: for them speed.0 * 255 / 100 is either an  *)
(* integer, and then computed exactly, or at least 1 / (100 * PercentScale)  *)
(* away from one, far more than the rounding of f64, so the truncation of    *)
(* the quotient is the truncation the code makes.                            *)

PercentScale == 4

U8Max == 255

NaN == [nan |-> TRUE, num |-> 0, den |-> 1]

Float(num, den) == [nan |-> FALSE, num |-> num, den |-> den]

\* value < bound and value > bound of f64: false when the value is NaN
FloatLT(v, bound) == ~v.nan /\ v.num < bound * v.den

FloatGT(v, bound) == ~v.nan /\ v.num > bound * v.den

\* impl TryFrom<f64> for ClampedPercentage
TryFrom(value) ==
    IF FloatLT(value, 0) THEN [kind |-> "TooLittle"]
    ELSE IF FloatGT(value, 100) THEN [kind |-> "TooBig"]
    ELSE [kind |-> "Ok", value |-> value]

\* ClampedPercentage::try_new: try_from(percentage.into())
TryNew(percentage) == TryFrom(percentage)

\* ClampedPercentage::new: try_new(percentage).unwrap()
NewPercentage(percentage) ==
    IF TryNew(percentage).kind = "Ok" THEN TryNew(percentage)
    ELSE [kind |-> "Panic", error |-> TryNew(percentage).kind]

\* PolarisGpu::set_fan_speed: (speed.0 * 255f64 / 100f64) as u8, the values
\* the cast can give.  The cast truncates and saturates; the cast of NaN is
\* 0 from Rust 1.45 on and undefined before, so any u8 there.
SetFanSpeedValues(speed) ==
    IF speed.nan THEN 0..U8Max
    ELSE {Min(U8Max, Max(0, (speed.num * 255) \div (speed.den * 100)))}

\* PolarisGpu::fan_speed: ClampedPercentage::new(value as f32 / 255f32 *
\* 100f32) for the u8 read from pwm1
FanSpeed(value) == NewPercentage(Float(value * 100, 255))

\* The percentages handed to try_new and new: the quarters from below 0 to
\* above 100, and NaN.
PercentInputs ==
    {Float(n, PercentScale) :
        n \in (0 - PercentScale)..(101 * PercentScale)} \cup {NaN}

InitPercent ==
    /\ MainAtRest
    /\ BufAtRest
    /\ overflow_checks = FALSE
    /\ table = NoTable
    /\ call = NoCall
    /\ text = <<>>
    /\ parsed = NotParsed
    /\ live = NoTable
    /\ derived = NoDerived
    /\ fan = NoFan
    /\ pstate = NoPstate
    /\ pct = NoPercent

\* ClampedPercentage::try_new(percentage)
TryNewPercentage ==
    /\ \E input \in PercentInputs :
         pct' = [op |-> "try_new", input |-> input, result |-> TryNew(input)]
    /\ UNCHANGED <<overflow_checks, bufVars, mainVars, table, call, text,
                   parsed, live, derived, fan, pstate>>

\* ClampedPercentage::new(percentage)
NewClampedPercentage ==
    /\ \E input \in PercentInputs :
         pct' = [op |-> "new", input |-> input,
                 result |-> NewPercentage(input)]
    /\ UNCHANGED <<overflow_checks, bufVars, mainVars, table, call, text,
                   parsed, live, derived, fan, pstate>>

\* gpu.set_fan_speed(speed) with the percentage just made
SetFanSpeed ==
    /\ pct.op \in {"try_new", "new"}
    /\ pct.result.kind = "Ok"
    /\ \E value \in SetFanSpeedValues(pct.result.value) :
         pct' = [op |-> "set_fan_speed", speed |-> pct.result.value,
                 pwm |-> value]
    /\ UNCHANGED <<overflow_checks, bufVars, mainVars, table, call, text,
                   parsed, live, derived, fan, pstate>>

\* gpu.fan_speed() with any u8 in pwm1
ReadFanSpeed ==
    /\ \E value \in 0..U8Max :
         pct' = [op |-> "fan_speed", pwm |-> value,
                 result |-> FanSpeed(value)]
    /\ UNCHANGED <<overflow_checks, bufVars, mainVars, table, call, text,
                   parsed, live, derived, fan, pstate>>

NextPercent ==
    TryNewPercentage \/ NewClampedPercentage \/ SetFanSpeed \/ ReadFanSpeed

SpecPercent == InitPercent /\ [][NextPercent]_vars

----------------------------------------------------------------------------

(* Properties of the buffer and of the averages. *)

\* What the buffer should hold after the add() calls of hist: the last
\* min(n, c) of them, oldest first.
Stored == LastN(hist, Min(Len(hist), buf.size))

\* C1: after any n add() calls on a buffer of any capacity c, iter() yields
\* exactly the last min(n, c) samples added, oldest first.
C1_ForwardYieldsLastSamples ==
    /\ bstatus = "ok"
    /\ Forward(buf, overflow_checks) = [ok |-> TRUE, items |-> Stored]

\* The same statement for a buffer of capacity >= 1 after at least one add():
\* there the code does what C1 says.
ForwardYieldsLastSamplesNonEmpty ==
    (buf.size >= 1 /\ hist # <<>>) =>
        /\ bstatus = "ok"
        /\ Forward(buf, overflow_checks) = [ok |-> TRUE, items |-> Stored]
        /\ BufLen(buf) <= buf.size

\* C2: in every fill state, the empty one included, iter().rev() yields the
\* reverse of what iter() yields.
C2_ReverseIsReverseOfForward ==
    bstatus = "ok" =>
        /\ Forward(buf, overflow_checks).ok
        /\ Backward(buf, overflow_checks).ok
        /\ Backward(buf, overflow_checks).items
             = Reverse(Forward(buf, overflow_checks).items)

\* The same statement for a non-empty buffer: there the code does what C2
\* says.
ReverseIsReverseOfForwardNonEmpty ==
    (bstatus = "ok" /\ BufLen(buf) >= 1) =>
        /\ Backward(buf, overflow_checks).ok
        /\ Backward(buf, overflow_checks).items
             = Reverse(Forward(buf, overflow_checks).items)

\* C3: after at least one add(), last() returns the sample added most
\* recently; on an empty buffer last() fails.
C3_LastIsMostRecent ==
    bstatus = "ok" =>
        IF hist = <<>>
        THEN ~Last(buf).ok
        ELSE Last(buf) = [ok |-> TRUE, value |-> hist[Len(hist)]]

\* What last() returns in the code: the oldest stored sample.
LastIsOldestStored ==
    (bstatus = "ok" /\ hist # <<>>) =>
        Last(buf) = [ok |-> TRUE, value |-> Stored[1]]

\* Sum of s[i] * (k + 1 - age) over the k newest entries of h, taken from the
\* newest (age 1, weight k) down to the oldest (age k, weight 1).
RECURSIVE SumByAge(_, _, _)
SumByAge(h, k, age) ==
    IF age > k THEN 0
    ELSE h[Len(h) + 1 - age] * (k + 1 - age) + SumByAge(h, k, age + 1)

RECURSIVE SumSeq(_)
SumSeq(s) == IF s = <<>> THEN 0 ELSE s[1] + SumSeq(Tail(s))

\* C4: over a traversal of k >= 1 samples the weighted average is
\* (sum of s_i * (i + 1)) / (k (k + 1) / 2): over the buffer the newest sample
\* weighs k and the oldest 1; equal samples v average to v; [1,2,3,4,5]
\* gives 55/15.
C4_IndexWeightedAverage ==
    (wavg_out.set /\ wavg_out.ok /\ hist # <<>>) =>
        LET k == Len(Stored) IN
        /\ k >= 1
        /\ 2 * wavg_out.weight = k * (k + 1)
        /\ wavg_out.sum = SumByAge(hist, k, 1)
        /\ \A v \in StatSamples :
             (\A i \in 1..k : Stored[i] = v) =>
                 wavg_out.sum = v * wavg_out.weight
        /\ Stored = <<1, 2, 3, 4, 5>> =>
             (wavg_out.sum = 55 /\ wavg_out.weight = 15)

C4_Witness ==
    /\ wavg_out.set /\ wavg_out.ok
    /\ hist = <<1, 2, 3, 4, 5>>
    /\ buf.size = 5
    /\ wavg_out.sum = 55 /\ wavg_out.weight = 15

\* C5: average() is the sum of the samples stored divided by their number,
\* never by the capacity: the n < c samples of a partially filled buffer, the
\* last c samples added after overflow.
C5_AverageOverStored ==
    (avg_out.set /\ avg_out.ok /\ hist # <<>>) =>
        /\ avg_out.weight = Min(Len(hist), buf.size)
        /\ avg_out.weight = BufLen(buf)
        /\ avg_out.sum = SumSeq(Stored)

\* average_overflown of stats.rs with capacity 3: 1, 2 forgotten, 3, 4, 5 kept
C5_Witness ==
    /\ avg_out.set /\ avg_out.ok
    /\ hist = <<1, 2, 3, 4, 5>>
    /\ buf.size = 3
    /\ avg_out.sum = 12 /\ avg_out.weight = 3

\* C6: every iterator made by iter() yields, whatever the interleaving of its
\* next()/next_back() calls with those of the other iterator, the stored
\* samples: next() from the oldest upwards, next_back() from the newest
\* downwards, all of them between the two, and none twice.
C6_IndependentTraversals ==
    \A i \in 1..2 :
        iters[i].live =>
            /\ IsPrefix(yielded[i].front, Stored)
            /\ IsPrefix(yielded[i].back, Reverse(Stored))
            /\ Len(yielded[i].front) + Len(yielded[i].back) + iters[i].left
                 = Len(Stored)

\* Both iterators exhausted over an overwritten buffer whose oldest sample is
\* not in slot 0, the first from both ends, the second from the front only.
C6_Witness ==
    /\ iters[1].live /\ iters[2].live
    /\ iters[1].left = 0 /\ iters[2].left = 0
    /\ Len(hist) > buf.size /\ buf.last # 0 /\ buf.size >= 3
    /\ Len(yielded[1].front) >= 1 /\ Len(yielded[1].back) >= 1
    /\ yielded[2].front = Stored

----------------------------------------------------------------------------
(* Properties of the regime state machine.  prev_state # "none" holds from  *)
(* the end of step() to the next update(): the buffers are then the ones    *)
(* step() read, prev_state the regime it started from and state its target. *)

Regimes == {"Idle", "CoolOff", "Performance"}

\* weighted_avg_usage and weighted_avg_temperature of step()
WeightedUsage ==
    IndexWeightedAverage(Forward(usage_buffer, overflow_checks).items)

WeightedTemperature ==
    IndexWeightedAverage(Forward(temperature_buffer, overflow_checks).items)

AllowedTransitions ==
    {<<"Idle", "CoolOff">>, <<"CoolOff", "Idle">>, <<"Idle", "Performance">>,
     <<"CoolOff", "Performance">>, <<"Performance", "Idle">>}

\* The buffers of the given capacity that add() can produce once full.
FullBuffers(samples, cap) ==
    {[data |-> d, size |-> cap, last |-> l] :
        d \in [1..cap -> samples], l \in 0..(cap - 1)}

\* From every regime some buffer contents make step() choose another one.
NoRegimeIsTerminal ==
    \A r \in Regimes :
        \E ub \in FullBuffers(UsageSamples, UsageCap),
           tb \in FullBuffers(TempSamples, TempCap) :
            StepTarget(r, ub, tb, overflow_checks) # r

\* C7: the regime starts as Idle; every change step() makes is one of
\* Idle->CoolOff, CoolOff->Idle, Idle->Performance, CoolOff->Performance,
\* Performance->Idle (never Performance->CoolOff); no regime is terminal.
\* (The last part does not depend on the state reached and is evaluated in
\* the initial states.)
C7_RegimeTransitions ==
    /\ pc \in {"overclock_core", "overclock_memory", "commit", "first_apply"}
         => state = "Idle"
    /\ (prev_state # "none" /\ prev_state # state)
         => <<prev_state, state>> \in AllowedTransitions
    /\ pc = "overclock_core" => NoRegimeIsTerminal

\* step() has just left Performance for Idle (after Idle was left for it).
C7_Witness ==
    /\ prev_state = "Performance"
    /\ state = "Idle"
    /\ pc # "panic"

C9_IdleRuleLatestSample ==
    (prev_state = "Idle" /\ ~Override(WeightedUsage)) =>
        state = IF QuotGT(WeightedUsage, IdleUsageThreshold) THEN "Performance"
                ELSE IF latest.temperature >= HeatThreshold THEN "CoolOff"
                ELSE "Idle"

\* What the code does on a step from Idle: the temperature it compares with
\* the heat threshold is last() of the buffer, the oldest stored sample.
IdleRuleOldestSample ==
    (prev_state = "Idle" /\ ~Override(WeightedUsage)) =>
        state = IF QuotGT(WeightedUsage, IdleUsageThreshold) THEN "Performance"
                ELSE IF Forward(temperature_buffer, overflow_checks).items[1]
                          >= HeatThreshold THEN "CoolOff"
                ELSE "Idle"

\* C10: on a step from CoolOff without the override, the target is Idle
\* exactly if the weighted average temperature is at or below the cool
\* threshold (43), else CoolOff; the cool threshold is strictly below the
\* heat threshold.
C10_CoolOffRule ==
    /\ (prev_state = "CoolOff" /\ ~Override(WeightedUsage)) =>
          /\ state \in {"Idle", "CoolOff"}
          /\ state = "Idle" <=> QuotLE(WeightedTemperature, CoolThreshold)
    /\ CoolThreshold < HeatThreshold

\* step() has taken CoolOff back to Idle at the cool threshold itself.
C10_Witness ==
    /\ prev_state = "CoolOff"
    /\ state = "Idle"
    /\ ~Override(WeightedUsage)
    /\ WeightedTemperature[1] = CoolThreshold * WeightedTemperature[2]

\* Some stored usage sample is at or above the performance threshold.
AnyAtPerformanceThreshold(ub) ==
    \E i \in 1..Len(Forward(ub, overflow_checks).items) :
        Forward(ub, overflow_checks).items[i] >= PerformanceThreshold

SustainOnLongBuffers ==
    \A tb \in FullBuffers(TempSamples, TempCap) :
        /\ \A ub \in FullBuffers({0, PerformanceThreshold}, FloorCap) :
             LET wu == IndexWeightedAverage(Forward(ub, overflow_checks).items)
             IN  ~Override(wu) =>
                   (StepTarget("Performance", ub, tb, overflow_checks)
                      = "Performance"
                    <=> (AnyAtPerformanceThreshold(ub)
                         /\ QuotGE(wu, SustainUsageFloor)))
        /\ \E ub \in FullBuffers({0, PerformanceThreshold}, FloorCap) :
             /\ AnyAtPerformanceThreshold(ub)
             /\ StepTarget("Performance", ub, tb, overflow_checks) = "Idle"

C12_PerformanceAppliedOncePerTransition ==
    applied.profile = "Performance" =>
        /\ applied.by = "step"
        /\ prev_state # "Performance"
        /\ state = "Performance"

\* C12 amended: step() applies the Performance profile exactly when it changes
\* the regime to Performance, and applies nothing when the regime stays
\* Performance; besides step(), the tick loop applies the profile of the
\* current regime (Performance included) again on every tick of which the
\* count is a multiple of gathers_per_reapply (10).
C12_PerformanceAppliedOnTransitionOrReapply ==
    /\ applied.profile = "Performance" =>
          /\ state = "Performance"
          /\ \/ applied.by = "step" /\ prev_state # "Performance"
             \/ /\ applied.by = "reapply"
                /\ pc \in {"sleep", "panic"} => gathers % GathersPerReapply = 0
    /\ (prev_state = "Performance" /\ state = "Performance") =>
          applied.by # "step"
    /\ (prev_state \notin {"none", "Performance"} /\ state = "Performance"
          /\ pc = "sleep" /\ gathers % GathersPerReapply # 0) =>
          (applied.profile = "Performance" /\ applied.by = "step")

\* A step() has kept the regime Performance without applying anything and
\* the re-apply of the tick has then applied the Performance profile again.
C12_Witness ==
    /\ prev_state = "Performance"
    /\ state = "Performance"
    /\ applied.profile = "Performance"
    /\ applied.by = "reapply"
    /\ pc = "sleep"

\* The usage sample of the last update() is above the performance threshold.
UsageFedHigh ==
    DOMAIN latest # {} /\ latest.usage > PerformanceThreshold

\* Every stored usage sample is above the performance threshold.
AllStoredUsageHigh ==
    /\ BufLen(usage_buffer) >= 1
    /\ \A i \in 1..BufLen(usage_buffer) :
         usage_buffer.data[i] > PerformanceThreshold

\* C13: from any regime, if every usage sample ingested from some tick on is
\* above the performance threshold (and the loop keeps running), the regime
\* eventually becomes Performance; a step() that finds only such samples
\* stored goes to Performance at once from whichever regime it starts in.
C13_HighUsageLeadsToPerformance ==
    /\ []((prev_state # "none" /\ AllStoredUsageHigh) => state = "Performance")
    /\ []<>(~(UsageFedHigh /\ ~term) \/ state = "Performance")

\* step() has gone from CoolOff straight to Performance on a usage buffer
\* full of samples above the threshold.
C13_Witness ==
    /\ prev_state = "CoolOff"
    /\ state = "Performance"
    /\ AllStoredUsageHigh
    /\ BufLen(usage_buffer) = UsageCap
    /\ UsageFedHigh

\* The loop is running: no signal has come and nothing has panicked.
LoopRuns == ~term /\ pc # "panic"

\* The last update() ingested a usage sample that keeps Idle idle.
UsageFedLow ==
    DOMAIN latest # {} /\ latest.usage <= IdleUsageThreshold

\* The last update() ingested a temperature at or above the heat threshold.
TemperatureFedHot ==
    DOMAIN latest # {} /\ latest.temperature >= HeatThreshold

\* The last update() ingested a temperature below the cool threshold.
TemperatureFedCool ==
    DOMAIN latest # {} /\ latest.temperature < CoolThreshold

\* C14: with usage kept low (and the loop running), whenever every
\* temperature sample ingested from some tick on is at or above the heat
\* threshold the regime eventually becomes CoolOff, and whenever every
\* temperature sample ingested from some tick on is below the cool threshold
\* the regime eventually is Idle and stays Idle.
C14_HeatThenCool ==
    /\ []<>(~(LoopRuns /\ UsageFedLow /\ TemperatureFedHot)
            \/ state = "CoolOff")
    /\ <>[](LoopRuns /\ UsageFedLow /\ TemperatureFedCool)
         => <>[](state = "Idle")

\* step() has taken CoolOff back to Idle while cool samples are ingested and
\* none of the stored ones is as hot as the heat threshold.
C14_Witness ==
    /\ prev_state = "CoolOff"
    /\ state = "Idle"
    /\ LoopRuns /\ UsageFedLow /\ TemperatureFedCool
    /\ \A i \in 1..BufLen(temperature_buffer) :
         temperature_buffer.data[i] < CoolThreshold

----------------------------------------------------------------------------
(* Properties of the profiles.  A step of the model is a call of apply()    *)
(* exactly if it changes the ghost applied.                                 *)

FanControls == {"fan_mode", "pwm"}

\* C15: apply() of the CoolOff profile puts the fan in manual mode at the
\* fixed duty cycle of 35 % and changes nothing else: it writes neither the
\* operating-point table nor the selected core or memory pstate nor the power
\* limit, which keep the values they had.  (The PCIe level it writes is the
\* one the card already has.)
C15_CoolOffChangesOnlyFan ==
    [][(applied' # applied /\ applied'.profile = "CoolOff") =>
          /\ applied'.writes
               \cap {"od", "pstate_core", "pstate_memory", "power_cap"} = {}
          /\ \A c \in DOMAIN device :
               c \notin FanControls => device'[c] = device[c]
          /\ device'.fan_mode = "manual"
          /\ device'.pwm = PwmOf(CoolOffFanSpeed)]_vars

\* step() has applied the CoolOff profile over the Idle one: the fan has been
\* raised and the Idle power limit and pstates are still there.
C15_Witness ==
    /\ applied.profile = "CoolOff"
    /\ applied.by = "step"
    /\ device.pwm = PwmOf(CoolOffFanSpeed)
    /\ device.power_cap = ToRealWattage(IdlePowerLimit)
    /\ device.pstate_core = 0
    /\ device.od = <<"s 7 1275 1000", "m 2 1900 900", "c">>

\* apply() of the given profile has returned and the card has not been
\* written since.
ProfileApplied(profile) ==
    /\ applied.profile = profile
    /\ "power_cap" \in applied.writes
    /\ pc # "done"

\* C16 as stated: after the Performance profile has been applied the
\* performance policy is auto, the power limit the high ceiling and the fan
\* in manual mode; after the Idle profile the policy is manual, the power
\* limit the conservative value and the fan in manual mode at the low duty
\* cycle.
C16_PerformanceAutoIdleManual ==
    /\ ProfileApplied("Performance") =>
          /\ device.level = "auto"
          /\ device.power_cap = ToRealWattage(PerformancePowerLimit)
          /\ device.fan_mode = "manual"
    /\ ProfileApplied("Idle") =>
          /\ device.level = "manual"
          /\ device.power_cap = ToRealWattage(IdlePowerLimit)
          /\ device.fan_mode = "manual"
          /\ device.pwm = PwmOf(IdleFanSpeed)

\* C16 amended: after the Performance profile has been applied the
\* performance policy is manual with core pstate 7 and memory pstate 2
\* selected, the power limit 135 W and the fan in manual mode; after the Idle
\* profile the policy is manual with pstates 0 selected, the power limit 40 W
\* and the fan in manual mode at duty cycle 0.
C16_BothProfilesManual ==
    /\ ProfileApplied("Performance") =>
          /\ device.level = "manual"
          /\ device.pstate_core = PerformancePstateCore
          /\ device.pstate_memory = PerformancePstateMemory
          /\ device.power_cap = ToRealWattage(PerformancePowerLimit)
          /\ device.fan_mode = "manual"
    /\ ProfileApplied("Idle") =>
          /\ device.level = "manual"
          /\ device.pstate_core = 0
          /\ device.pstate_memory = 0
          /\ device.power_cap = ToRealWattage(IdlePowerLimit)
          /\ device.fan_mode = "manual"
          /\ device.pwm = PwmOf(IdleFanSpeed)
    /\ IdlePowerLimit < PerformancePowerLimit

\* The Performance profile has been applied by a step() out of Idle.
C16_Witness ==
    /\ ProfileApplied("Performance")
    /\ applied.by = "step"
    /\ prev_state = "Idle"
    /\ device.power_cap = ToRealWattage(PerformancePowerLimit)

\* step() was the last thing to act on the card or to leave it alone (the
\* re-apply of the tick has not run since).
AfterStepOnly == prev_state # "none" /\ applied.by # "reapply"

----------------------------------------------------------------------------
(* Properties of the overclock at the start of main.  device.od is the list *)
(* of the lines written to pp_od_clk_voltage.                               *)

Committed == \E i \in 1..Len(device.od) : device.od[i] = "c"

\* One of the two modify_pstate calls has failed: main has panicked before
\* the commit.
OverclockFailed == pc = "panic" /\ ~Committed

----------------------------------------------------------------------------
(* Properties of the table.  call is the last set_state() call: its         *)
(* arguments, its result and the table it was made on.                      *)

IndexOutOfBounds == call.index >= Len(States(call.before, call.part))

\* C19 as stated: set_state with an index at or beyond the number of states
\* of the part fails with InvalidIndex, whatever the candidate state.
C19_InvalidIndexForEveryCandidate ==
    (call.made /\ IndexOutOfBounds) => call.result = "InvalidIndex"

\* C19 amended: set_state with an index at or beyond the number of states of
\* the part fails for every candidate state: with InvalidIndex if the
\* candidate's voltage and clock are within range, with VoltageNotInRange if
\* its voltage is not, else with ClockNotInRange, the candidate being
\* validated before the index is looked at.
C19_InvalidIndexAfterValidation ==
    (call.made /\ IndexOutOfBounds) =>
        /\ call.result # "Ok"
        /\ call.result =
             IF ~Contains(call.before.voltage_range, call.state.voltage)
             THEN "VoltageNotInRange"
             ELSE IF ~Contains(ClockRange(call.before, call.part),
                               call.state.clock)
             THEN "ClockNotInRange"
             ELSE "InvalidIndex"

\* set_state has failed with InvalidIndex on a valid candidate.
C19_Witness ==
    /\ call.made
    /\ IndexOutOfBounds
    /\ call.result = "InvalidIndex"
    /\ Contains(call.before.voltage_range, call.state.voltage)

\* C20: whenever set_state returns an error the table is unchanged, every
\* state of both parts and the three ranges; a candidate of 1200 mV against
\* the voltage range [750, 1150] is rejected with VoltageNotInRange and
\* nothing is stored.
C20_ErrorLeavesTableUnchanged ==
    call.made =>
        /\ call.result \in {"Ok", "VoltageNotInRange", "ClockNotInRange",
                            "InvalidIndex"}
        /\ call.result # "Ok" => table = call.before
        /\ (call.state.voltage = 1200 /\ call.before.voltage_range = <<750, 1150>>)
             => (call.result = "VoltageNotInRange" /\ table = call.before)

\* set_state has rejected 1200 mV for a state the table has, after an
\* earlier call had stored another state there.
C20_Witness ==
    /\ call.made
    /\ call.state.voltage = 1200
    /\ call.result = "VoltageNotInRange"
    /\ ~IndexOutOfBounds
    /\ States(table, call.part)[call.index + 1] # ParsedState

\* The other part of the table.
OtherPart(part) == IF part = "Core" THEN "Memory" ELSE "Core"

\* C21: a successful set_state(part, index, state) replaces exactly the state
\* at that index of that part: get_state(part, index) then returns the new
\* state, get_state of every other index of the part returns what it did
\* before, the states of the other part and the voltage, core-clock and
\* memory-clock ranges are unchanged.
C21_SetStateReplacesOneState ==
    (call.made /\ call.result = "Ok") =>
        /\ GetState(table, call.part, call.index) =
             [some |-> TRUE, state |-> call.state]
        /\ Len(States(table, call.part)) =
             Len(States(call.before, call.part))
        /\ \A i \in 0..MaxStates :
             i # call.index =>
                 GetState(table, call.part, i) =
                     GetState(call.before, call.part, i)
        /\ States(table, OtherPart(call.part)) =
             States(call.before, OtherPart(call.part))
        /\ table.voltage_range = call.before.voltage_range
        /\ ClockRange(table, "Core") = ClockRange(call.before, "Core")
        /\ ClockRange(table, "Memory") = ClockRange(call.before, "Memory")

\* set_state has stored a new state at index 0 of a part of two states whose
\* index 1 holds another state.
C21_Witness ==
    /\ call.made
    /\ call.result = "Ok"
    /\ call.index = 0
    /\ call.state # ParsedState
    /\ GetState(call.before, call.part, 0).state # call.state
    /\ GetState(table, call.part, 1) = [some |-> TRUE, state |-> ParsedState]

\* Every state of the table is within the ranges of the table: its voltage
\* within the voltage range, its clock within the clock range of its part.
StatesWithinRanges(t) ==
    \A part \in Parts :
        \A i \in DOMAIN States(t, part) :
            /\ Contains(t.voltage_range, States(t, part)[i].voltage)
            /\ Contains(ClockRange(t, part), States(t, part)[i].clock)

\* C22: for every table obtained by try_parse and then any sequence of
\* set_state calls, every core state has its clock within the core-clock
\* range, every memory state has its clock within the memory-clock range and
\* every state of either part has its voltage within the voltage range.
C22_StatesWithinRanges ==
    parsed.kind = "Some" => StatesWithinRanges(table)

\* What the code does keep: set_state never stores a state outside the
\* ranges, so a table whose parsed states were within them stays so.
SetStateKeepsStatesWithinRanges ==
    (parsed.kind = "Some" /\ StatesWithinRanges(parsed.table)) =>
        StatesWithinRanges(table)

\* C23: parsing a well-formed three-section text yields a table whose core
\* states are the OD_SCLK lines in order, whose memory states are the OD_MCLK
\* lines in order and whose clock_range(Core), clock_range(Memory) and
\* voltage_range() are the SCLK, MCLK and VDDC lines; for the text of the
\* test, core state 0 is (300, 750), memory state 2 is (1500, 900) and
\* clock_range(Memory) is [300, 2250].
C23_WellFormedTextParses ==
    parsed # NotParsed =>
        /\ \A n \in 1..Len(CanonicalCore), m \in 1..Len(CanonicalMemory),
              order \in RangeOrders :
             text = WellFormedText(n, m, order) =>
                 /\ parsed.kind = "Some"
                 /\ States(parsed.table, "Core") =
                      ExpectedStates(SubSeq(CanonicalCore, 1, n))
                 /\ States(parsed.table, "Memory") =
                      ExpectedStates(SubSeq(CanonicalMemory, 1, m))
                 /\ ClockRange(parsed.table, "Core") = SclkRange
                 /\ ClockRange(parsed.table, "Memory") = MclkRange
                 /\ parsed.table.voltage_range = VoltageRange
        /\ text = CanonicalText =>
             /\ parsed.kind = "Some"
             /\ GetState(parsed.table, "Core", 0) =
                  [some |-> TRUE, state |-> [clock |-> 300, voltage |-> 750]]
             /\ GetState(parsed.table, "Memory", 2) =
                  [some |-> TRUE, state |-> [clock |-> 1500, voltage |-> 900]]
             /\ ClockRange(parsed.table, "Memory") = <<300, 2250>>

\* The text of the test has been parsed into a table of eight core states
\* and three memory states.
C23_Witness ==
    /\ text = CanonicalText
    /\ parsed.kind = "Some"
    /\ Len(parsed.table.core_states) = 8
    /\ Len(parsed.table.memory_states) = 3

\* C24: try_parse returns None on every structural failure of the input (a
\* missing section, a malformed number or wrong unit, a missing second
\* value, an unknown range name or section header, data before any section
\* header) and never aborts instead of returning.
C24_StructuralFailureReturnsNone ==
    parsed # NotParsed =>
        /\ parsed.kind # "Panic"
        /\ text \in BrokenTexts => parsed.kind = "None"

\* The sample is stored in the buffer.
Holds(b, v) == \E i \in 1..BufLen(b) : b.data[i] = v

\* C30: in every run of the tick loop each decision step is preceded by an
\* ingest into both buffers the step reads, the usage and the temperature
\* buffer, so that no average and no read of the latest sample is taken over
\* an empty buffer: when step() is about to run and after it has run, both
\* buffers hold the sample update() has just ingested and no read of step()
\* fails.
C30_StepAfterIngest ==
    (pc = "step" \/ prev_state # "none") =>
        /\ latest # <<>>
        /\ BufLen(usage_buffer) >= 1
        /\ BufLen(temperature_buffer) >= 1
        /\ Holds(usage_buffer, latest.usage)
        /\ Holds(temperature_buffer, latest.temperature)
        /\ ~StepReadPanics(usage_buffer, temperature_buffer, overflow_checks)

\* The first step() of the loop has run, on buffers of one sample each.
C30_Witness ==
    /\ prev_state # "none"
    /\ BufLen(usage_buffer) = 1
    /\ BufLen(temperature_buffer) = 1

----------------------------------------------------------------------------
(* Properties of the derived tables. *)

\* The letter of the set-state commands of a part.
PartLetter(part) == IF part = "Core" THEN "s" ELSE "m"

\* The part differs at the index between the live and the derived table.
DiffersAt(part, index) ==
    States(live, part)[index + 1] # States(table, part)[index + 1]

\* The number of states that differ between the live and the derived table.
Differences ==
    Cardinality({<<part, index>> \in Parts \X (0..(MaxStates - 1)) :
                   /\ index < Len(States(live, part))
                   /\ DiffersAt(part, index)})

\* C25: diff_to_commands(current, target) emits exactly one set-state
\* command, carrying the target's state, for each index whose state differs
\* and none for the others, all core commands before all memory commands and
\* each part in ascending index order, followed by exactly one commit if and
\* only if a set-state command was emitted; for identical tables the
\* sequence is empty, for a single differing state it is one set-state
\* command and one commit.
C25_DiffEmitsOneCommandPerDifference ==
    derived.op = "diff" =>
        LET cmds == derived.commands
            sets == {k \in DOMAIN cmds : Len(cmds[k]) = 4}
        IN  /\ \A part \in Parts :
                 \A index \in 0..(Len(States(live, part)) - 1) :
                     LET ks == {k \in sets :
                                  /\ cmds[k][1] = PartLetter(part)
                                  /\ cmds[k][2] = index}
                         st == States(table, part)[index + 1]
                     IN  IF DiffersAt(part, index)
                         THEN /\ Cardinality(ks) = 1
                              /\ \A k \in ks :
                                   /\ cmds[k][3] = st.clock
                                   /\ cmds[k][4] = st.voltage
                         ELSE ks = {}
            /\ Cardinality(sets) = Differences
            /\ \A a \in sets, b \in sets :
                 a < b =>
                     \/ cmds[a][1] = "s" /\ cmds[b][1] = "m"
                     \/ cmds[a][1] = cmds[b][1] /\ cmds[a][2] < cmds[b][2]
            /\ \A k \in DOMAIN cmds \ sets :
                 cmds[k] = <<"c">> /\ k = Len(cmds)
            /\ sets # {} <=> (cmds # <<>> /\ cmds[Len(cmds)] = <<"c">>)
            /\ Differences = 0 => cmds = <<>>
            /\ Differences = 1 => Len(cmds) = 2

\* The difference of a table with two changed core states and one changed
\* memory state has been computed.
C25_Witness ==
    /\ derived.op = "diff"
    /\ Len(derived.commands) = 4
    /\ derived.commands[1][1] = "s"
    /\ derived.commands[2][1] = "s"
    /\ derived.commands[3][1] = "m"

\* C26: applying a derived table against the live table when the voltage,
\* the core-clock or the memory-clock range differs between the two fails
\* with the ranges-mismatch error and writes nothing to the device, neither
\* a set-state command nor a commit.
C26_RangeMismatchWritesNothing ==
    (/\ derived.op = "apply"
     /\ \/ live.voltage_range # table.voltage_range
        \/ live.sclk_range # table.sclk_range
        \/ live.mclk_range # table.mclk_range) =>
        /\ derived.result = "RangesImmutableMismatch"
        /\ derived.commands = <<>>

\* A derived table with another memory-clock range and a changed state has
\* been refused.
C26_Witness ==
    /\ derived.op = "apply"
    /\ live.mclk_range # table.mclk_range
    /\ Differences > 0
    /\ derived.result = "RangesImmutableMismatch"

\* C27: a performance table built from a source table and a ceiling state
\* has the ranges and the number of states per part of the source; in every
\* targeted part every state's voltage (in the strict variant also its
\* clock) is at most the ceiling's and the last index is exactly the
\* ceiling state; the untargeted parts are equal to the source.
C27_PerformanceTableCapped ==
    (derived.op = "performance" /\ derived.result = "Ok") =>
        /\ table.voltage_range = live.voltage_range
        /\ table.sclk_range = live.sclk_range
        /\ table.mclk_range = live.mclk_range
        /\ \A part \in Parts :
             /\ Len(States(table, part)) = Len(States(live, part))
             /\ part \in derived.targets =>
                  /\ \A i \in DOMAIN States(table, part) :
                       /\ States(table, part)[i].voltage
                            <= derived.ceiling.voltage
                       /\ derived.strict =>
                            States(table, part)[i].clock
                              <= derived.ceiling.clock
                  /\ States(table, part)[Len(States(table, part))]
                       = derived.ceiling
             /\ part \notin derived.targets =>
                  States(table, part) = States(live, part)

\* A strict performance table of the core part only has been built from a
\* table of two core states, the first of which was below the ceiling.
C27_Witness ==
    /\ derived.op = "performance"
    /\ derived.result = "Ok"
    /\ derived.targets = {"Core"}
    /\ derived.strict
    /\ Len(table.core_states) = 2
    /\ table.core_states[1] = live.core_states[1]
    /\ table.core_states[2] # live.core_states[2]
    /\ table.memory_states = live.memory_states

----------------------------------------------------------------------------
(* Properties of the fan curve. *)

\* The temperatures of the points a curve was made from.
InputTemperatures == {fan.input[i].temperature : i \in DOMAIN fan.input}

\* The duty cycle evaluate returned is exactly d.
ReturnedDuty(d) ==
    fan.result.ok /\ fan.result.den > 0 /\ fan.result.num = d * fan.result.den

\* C28: every non-empty fan curve holds its points sorted ascending by
\* temperature whatever the input order; evaluate(t) returns the lowest
\* point's duty unmodified when t is below every point's temperature, and
\* the last point's duty, with no division by zero, when t is at or above
\* the last point's temperature.
C28_FanCurveEnds ==
    fan.made =>
        /\ fan.ok <=> fan.input # <<>>
        /\ fan.ok =>
             /\ Len(fan.curve) = Len(fan.input)
             /\ \A p \in Points :
                  Cardinality({i \in DOMAIN fan.curve : fan.curve[i] = p})
                    = Cardinality({i \in DOMAIN fan.input : fan.input[i] = p})
             /\ \A i \in DOMAIN fan.curve, j \in DOMAIN fan.curve :
                  i < j => fan.curve[i].temperature
                             <= fan.curve[j].temperature
        /\ (fan.ok /\ fan.evaluated) =>
             /\ fan.result.ok
             /\ (\A temp \in InputTemperatures :
                   fan.query < QueryScale * temp) =>
                  \E i \in DOMAIN fan.input :
                      /\ \A temp \in InputTemperatures :
                           fan.input[i].temperature <= temp
                      /\ fan.result = [ok |-> TRUE,
                                       num |-> fan.input[i].duty, den |-> 1]
             /\ (\A temp \in InputTemperatures :
                   fan.query >= QueryScale * temp) =>
                  \E i \in DOMAIN fan.input :
                      /\ \A temp \in InputTemperatures :
                           fan.input[i].temperature >= temp
                      /\ fan.result = [ok |-> TRUE,
                                       num |-> fan.input[i].duty, den |-> 1]

\* A curve made from three points given warmest first has been evaluated
\* above its last point.
C28_Witness ==
    /\ fan.made
    /\ fan.ok
    /\ fan.evaluated
    /\ Len(fan.input) = 3
    /\ fan.input[1].temperature > fan.input[2].temperature
    /\ fan.input[2].temperature > fan.input[3].temperature
    /\ fan.query > QueryScale * fan.input[1].temperature
    /\ fan.result.num = fan.input[1].duty

\* C29: for a temperature t between two adjacent control points evaluate(t)
\* lies between the two duties; at exactly a control point's temperature it
\* returns that point's duty exactly, and halfway between points with
\* duties 30 and 40 it returns 35.
C29_FanCurveInterpolates ==
    (fan.made /\ fan.ok /\ fan.evaluated) =>
        /\ \A i \in 1..(Len(fan.curve) - 1) :
             LET lower == fan.curve[i]
                 upper == fan.curve[i + 1]
             IN  (/\ QueryScale * lower.temperature <= fan.query
                  /\ fan.query < QueryScale * upper.temperature) =>
                     /\ fan.result.ok
                     /\ QuotGE(<<fan.result.num, fan.result.den>>,
                               Min(lower.duty, upper.duty))
                     /\ QuotLE(<<fan.result.num, fan.result.den>>,
                               Max(lower.duty, upper.duty))
                     /\ (/\ {lower.duty, upper.duty} = {30, 40}
                         /\ 2 * fan.query = QueryScale * (lower.temperature
                                              + upper.temperature)) =>
                            ReturnedDuty(35)
        /\ (\E i \in DOMAIN fan.curve :
              fan.query = QueryScale * fan.curve[i].temperature) =>
             \E i \in DOMAIN fan.curve :
                 /\ fan.query = QueryScale * fan.curve[i].temperature
                 /\ ReturnedDuty(fan.curve[i].duty)

\* A curve has been evaluated halfway between its points of 40 and 50
\* degrees, with duties 30 and 40, and has returned 35.
C29_Witness ==
    /\ fan.made
    /\ fan.ok
    /\ fan.evaluated
    /\ fan.query = 90
    /\ \E i \in 1..(Len(fan.curve) - 1) :
         /\ fan.curve[i] = [temperature |-> 40, duty |-> 30]
         /\ fan.curve[i + 1] = [temperature |-> 50, duty |-> 40]
    /\ fan.result.den # 1
    /\ ReturnedDuty(35)

----------------------------------------------------------------------------
(* Properties of the failures and of the shutdown of main. *)

\* The power limit in watts of the profile of the last apply() call.
AppliedPowerLimit == IF applied.profile = "Idle" THEN 40 ELSE 135

\* That limit is within the power-limit range the card reports.
AppliedLimitInRange ==
    /\ device.cap_min <= AppliedPowerLimit * WattageDivisor
    /\ AppliedPowerLimit * WattageDivisor <= device.cap_max

C32_ShutdownRestoresAutomatic ==
    pc = "done" =>
        /\ device.level = "auto"
        /\ device.fan_mode = "auto"
        /\ device.od # <<>> /\ device.od[Len(device.od)] = "r"

\* What the shutdown does restore: the performance policy is Auto and the
\* table reset, and no tick starts once the flag is seen at the loop test.
ShutdownRestoresPolicyAndTable ==
    /\ pc = "done" =>
          /\ term
          /\ device.level = "auto"
          /\ device.od # <<>> /\ device.od[Len(device.od)] = "r"
    /\ (pc = "update" /\ term) => ~ENABLED Update

\* The temperature samples ingested since step() last took CoolOff to Idle,
\* oldest first: the fresh newest ones of the stored samples.
FreshSamples ==
    LET stored == Forward(temperature_buffer, overflow_checks).items
    IN  LastN(stored, Min(fresh, Len(stored)))

\* C33: after step() has taken the regime from CoolOff to Idle, a step()
\* takes it from Idle to CoolOff again only if some temperature sample
\* ingested after that transition is at or above the heat threshold (55);
\* the samples ingested before it never cause a new Idle to CoolOff.
C33_ReentryNeedsFreshHotSample ==
    (prev_state = "Idle" /\ state = "CoolOff") =>
        \E i \in 1..Len(FreshSamples) : FreshSamples[i] >= HeatThreshold

\* C34: under constant telemetry the regime eventually stops changing: for
\* no usage and temperature do the successive step() calls alternate
\* between regimes forever.
C34_RegimeSettles ==
    \/ <>[](state = "Idle")
    \/ <>[](state = "Performance")
    \/ <>[](state = "CoolOff")

\* What the code does under constant telemetry: the regime settles unless
\* the usage lies above the Idle threshold (50) and below the performance
\* threshold (75), where Idle enters Performance and Performance, holding no
\* sample of 75 or more, falls back to Idle at every step().
RegimeSettlesOutsideBand ==
    \/ C34_RegimeSettles
    \/ <>[](/\ latest # <<>>
            /\ latest.usage > IdleUsageThreshold
            /\ latest.usage < PerformanceThreshold)

\* The card carries every write of the given profile made before
\* set_power_limit.  The fan duty cycles of the three profiles differ, so
\* the profile in force is the one apply() was last called with.
ProfileInForce(profile) ==
    \A c \in DOMAIN ProfileWrites(profile) :
        device[c] = ProfileWrites(profile)[c]

\* C35: from the first apply() on, at every tick boundary the regime held is
\* the regime whose profile was applied last; step() applies a profile
\* exactly when it changes the regime, and then that of the new regime, and
\* the re-apply of the tick applies the profile of the current regime.
C35_HeldRegimeIsApplied ==
    /\ pc \in {"update", "sleep"} =>
          /\ ProfileInForce(state)
          /\ \A r \in Regimes : ProfileInForce(r) => r = state
    /\ applied # NoApply => applied.profile = state
    /\ applied.by = "step" => prev_state # state
    /\ (prev_state # "none" /\ prev_state # state) => applied.profile = state
    /\ (prev_state # "none" /\ prev_state = state) => applied.by # "step"

\* step() has taken the regime from Idle to Performance and the tick has
\* reached its end with the Performance profile on the card.
C35_Witness ==
    /\ prev_state = "Idle"
    /\ state = "Performance"
    /\ applied.by = "step"
    /\ pc = "sleep"
    /\ device.pwm = PwmOf(PerformanceFanSpeed)

\* C36: in the startup overclock the commit is written only after both
\* staged writes, the core state and then the memory state, were accepted,
\* and it is written once; if either write is rejected main has ended in the
\* panic of expect() and no commit is ever written.
C36_CommitOnlyAfterBothWrites ==
    /\ \A i \in 1..Len(device.od) :
          device.od[i] = "c" =>
              /\ i = 3
              /\ device.od[1] = "s 7 1275 1000"
              /\ device.od[2] = "m 2 1900 900"
    /\ pc \in {"overclock_core", "overclock_memory", "commit"} =>
          /\ ~Committed
          /\ device.od = SubSeq(<<"s 7 1275 1000", "m 2 1900 900">>, 1,
                                Len(device.od))
    /\ OverclockFailed => (Len(device.od) < 2 /\ ~ENABLED Next)

\* Both states were accepted and the commit has just been written.
C36_Witness ==
    /\ pc = "first_apply"
    /\ device.od = <<"s 7 1275 1000", "m 2 1900 900", "c">>

----------------------------------------------------------------------------
(* Properties of modify_pstate and parse_acceptable_range.  The ranges of    *)
(* the text are the ones try_parse reads from it.                            *)

TextTable == TryParse(text).table

\* The device has rejected the write of modify_pstate with InvalidData.
WriteRejected ==
    /\ pstate.op = "modify_pstate"
    /\ pstate.is_file
    /\ pstate.write = "InvalidData"

\* C37: when the device rejects the staged write with InvalidData and the
\* text of the live table is in the standard format, modify_pstate returns
\* ClockNotInRange with the clock range of the part if the requested clock
\* is outside it, and otherwise VoltageNotInRange with the VDDC range if
\* the requested voltage is outside it.
C37_RejectedWriteNamesRange ==
    WriteRejected =>
        IF ~Contains(ClockRange(TextTable, pstate.part), pstate.clock)
        THEN pstate.result = [kind |-> "ClockNotInRange",
                              range |-> ClockRange(TextTable, pstate.part)]
        ELSE ~Contains(TextTable.voltage_range, pstate.voltage) =>
                 pstate.result = [kind |-> "VoltageNotInRange",
                                  range |-> TextTable.voltage_range]

\* What modify_pstate does after a rejected write on a text in the standard
\* format: both ranges are read before either is compared, and reading the
\* VDDC range panics on the unit "mV", which is not removed.
RejectedWritePanics ==
    WriteRejected =>
        pstate.result = RangePanic("Lower bound is not an integer")

\* C38: for a well-formed text and each of the names SCLK, MCLK and VDDC,
\* parse_acceptable_range returns the range try_parse exposes as
\* clock_range(Core), clock_range(Memory) and voltage_range().
C38_RangesAgreeWithTable ==
    (pstate.op = "parse_acceptable_range" /\ parsed.kind = "Some") =>
        pstate.result =
            [kind |-> "Range",
             range |-> CASE pstate.entry = "SCLK" ->
                              ClockRange(parsed.table, "Core")
                         [] pstate.entry = "MCLK" ->
                              ClockRange(parsed.table, "Memory")
                         [] pstate.entry = "VDDC" ->
                              parsed.table.voltage_range]

\* What parse_acceptable_range does: it agrees with try_parse on the two
\* clock ranges and panics on the voltage range.
ClockRangesAgreeWithTable ==
    (pstate.op = "parse_acceptable_range" /\ parsed.kind = "Some") =>
        pstate.result =
            CASE pstate.entry = "SCLK" ->
                   [kind |-> "Range", range |-> <<300, 2000>>]
              [] pstate.entry = "MCLK" ->
                   [kind |-> "Range", range |-> <<300, 2250>>]
              [] pstate.entry = "VDDC" ->
                   RangePanic("Lower bound is not an integer")

----------------------------------------------------------------------------
(* Properties of the fan duty cycle. *)

\* The f64 is a number from 0 to 100.
WithinPercent(v) == ~v.nan /\ 0 <= v.num /\ v.num <= 100 * v.den

\* C39: every duty cycle is a percentage within [0, 100], no value outside
\* that interval can be made through ClampedPercentage::new or try_new;
\* the pwm value written for a duty cycle is floor(duty * 255 / 100) and
\* lies within [0, 255]; and reading back any pwm value from 0 to 255 gives
\* a percentage within [0, 100].
C39_DutyCycleWithinPercent ==
    /\ (pct.op \in {"try_new", "new"} /\ pct.result.kind = "Ok") =>
          WithinPercent(pct.result.value)
    /\ pct.op = "set_fan_speed" =>
          /\ WithinPercent(pct.speed)
          /\ pct.pwm = (pct.speed.num * 255) \div (pct.speed.den * 100)
          /\ pct.pwm \in 0..255
    /\ pct.op = "fan_speed" =>
          /\ pct.result.kind = "Ok"
          /\ WithinPercent(pct.result.value)

\* What the code does: try_from compares the value with 0 and with 100 and
\* both comparisons are false for NaN, so that new and try_new return NaN as
\* a percentage; every other value they return is within [0, 100], the pwm
\* value written is a u8, the truncated quotient unless the duty cycle is
\* NaN, and every pwm value read back is a percentage within [0, 100].
DutyCycleWithinPercentOrNaN ==
    /\ (pct.op \in {"try_new", "new"} /\ pct.result.kind = "Ok") =>
          /\ pct.result.value = pct.input
          /\ pct.input.nan \/ WithinPercent(pct.input)
    /\ (pct.op \in {"try_new", "new"} /\ pct.result.kind # "Ok") =>
          ~WithinPercent(pct.input) /\ ~pct.input.nan
    /\ pct.op = "set_fan_speed" =>
          /\ pct.pwm \in 0..255
          /\ ~pct.speed.nan =>
                /\ WithinPercent(pct.speed)
                /\ pct.pwm = (pct.speed.num * 255) \div (pct.speed.den * 100)
    /\ pct.op = "fan_speed" =>
          /\ pct.result.kind = "Ok"
          /\ WithinPercent(pct.result.value)

=============================================================================
